---- MODULE Spec2Model ----
(***************************************************************************)
(* A model of the rule engine core of nlprule (src/nlprule/src/rule/mod.rs) *)
(* Character and token positions are 0-based as in the source; sequences   *)
(* are the 1-based sequences of TLA+, so element i of a Rust vector is     *)
(* element i + 1 of the sequence that models it.                           *)
(***************************************************************************)
EXTENDS Integers, Sequences, FiniteSets, TLC

\* ------------------------------------------------------------------ bounds

\* Longest text handed to Rules::correct.
MaxTextLen == 3
\* Most suggestions handed to Rules::correct.
MaxSuggs == 2
\* Most readings (tags) of a token handed to Disambiguation::apply.
MaxTags == 2
\* Most tokens one group of a token-engine match spans.
MaxGroupTokens == 3

\* ----------------------------------------------------------------- helpers

\* The outcome of a call: a returned value, a panic (slice index out of range,
\* unwrap of None, index out of bounds: the call returns nothing), or no
\* outcome yet.
Ok(v) == [tag |-> "ok", val |-> v]
Panic == [tag |-> "panic"]
NoResult == [tag |-> "none"]
IsOk(r) == r.tag = "ok"
IsPanic(r) == r.tag = "panic"

\* All sequences over S of length lo..hi.
SeqsOf(S, lo, hi) == UNION {[1..n -> S] : n \in lo..hi}

\* The 0-based half-open index range start..end of a Rust slice.
Slice(start, end) == start..(end - 1)

RECURSIVE SumSeq(_)
SumSeq(s) == IF s = <<>> THEN 0 ELSE Head(s) + SumSeq(Tail(s))

\* -------------------------------------------------------------- Suggestion

\* struct Suggestion
Suggestion(source, message, start, end, text) ==
    [source |-> source, message |-> message, start |-> start, end |-> end,
     text |-> text]

\* ---------------------------------------------------------- Rules::correct

\* Vec::splice(a..b, repl) on a 0-based vector: panics when a > b or b > len.
Splice(chars, a, b, repl) ==
    IF a < 0 \/ a > b \/ b > Len(chars)
    THEN Panic
    ELSE Ok(SubSeq(chars, 1, a) \o repl \o SubSeq(chars, b + 1, Len(chars)))

\* The offset with the replaced range's length forgotten.
NewOffsetNoRange(offset, replacement, suggestion) ==
    offset + Len(replacement)

\* offset = offset + replacement.len() - (suggestion.end - suggestion.start)
NewOffset(offset, replacement, suggestion) ==
    offset + Len(replacement) - (suggestion.end - suggestion.start)

\* One iteration of the loop of Rules::correct over `suggestion`.
\* acc = Ok([chars, offset]) or Panic; a panic ends the call.
CorrectStep(acc, suggestion) ==
    IF IsPanic(acc) \/ suggestion.text = <<>>
    THEN Panic
    ELSE LET replacement == suggestion.text[1]
             spliced == Splice(acc.val.chars,
                               suggestion.start + acc.val.offset,
                               suggestion.end + acc.val.offset,
                               replacement)
         IN IF IsPanic(spliced)
            THEN Panic
            ELSE Ok([chars |-> spliced.val,
                     offset |-> NewOffset(acc.val.offset, replacement, suggestion)])

RECURSIVE CorrectLoop(_, _)
CorrectLoop(acc, suggestions) ==
    IF suggestions = <<>>
    THEN acc
    ELSE CorrectLoop(CorrectStep(acc, Head(suggestions)), Tail(suggestions))

\* Rules::correct(text, suggestions): Ok(the corrected characters), or Panic.
Correct(text, suggestions) ==
    LET acc == CorrectLoop(Ok([chars |-> text, offset |-> 0]), suggestions)
    IN IF IsPanic(acc) THEN Panic ELSE Ok(acc.val.chars)

\* ------------------------------------------------------ words and tokens

\* struct WordData: one reading of a word.
WordData(lemma, pos) == [lemma |-> lemma, pos |-> pos]

\* An IncompleteToken or a Token: word.text, word.tags, char_span and
\* byte_span (spans are pairs <<start, end>>).
Token(text, tags, char_span, byte_span) ==
    [text |-> text, tags |-> tags, char_span |-> char_span, byte_span |-> byte_span]

\* either::Left(data) and either::Right(filter)
Left(data) == [side |-> "Left", data |-> data]
Right(filter) == [side |-> "Right", filter |-> filter]

\* Option: Some(x) and None
Some(x) == [some |-> TRUE, val |-> x]
None == [some |-> FALSE]

\* --------------------------------------------------------------- POSFilter

\* POSFilter::String(string); POSFilter::Regex(regex), the regex given by
\* the set of pos strings it matches.
POSFilterString(string) == [kind |-> "String", string |-> string]
POSFilterRegex(matches) == [kind |-> "Regex", matches |-> matches]

\* POSFilter::is_word_data_match
IsWordDataMatch(filter, data) ==
    IF filter.kind = "String"
    THEN data.pos = filter.string
    ELSE data.pos \in filter.matches

\* POSFilter::keep: data.tags.retain(|x| self.is_word_data_match(x))
FilterKeep(filter, tags) ==
    LET Keep(x) == IsWordDataMatch(filter, x) IN SelectSeq(tags, Keep)

\* POSFilter::remove: data.tags.retain(|x| !self.is_word_data_match(x))
FilterRemove(filter, tags) ==
    LET Keep(x) == ~IsWordDataMatch(filter, x) IN SelectSeq(tags, Keep)

\* POSFilter::and: some tag matches all filters.
FilterAnd(filters, tags) ==
    \E i \in 1..Len(tags) :
        \A k \in 1..Len(filters) : IsWordDataMatch(filters[k], tags[i])

\* POSFilter::apply: keep the tags that match all filters of some group.
FilterApply(filterGroups, tags) ==
    LET Keep(x) == \E g \in 1..Len(filterGroups) :
                       \A k \in 1..Len(filterGroups[g]) :
                           IsWordDataMatch(filterGroups[g][k], x)
    IN SelectSeq(tags, Keep)

\* ---------------------------------------------------------- Disambiguation

\* enum Disambiguation
DisRemove(params) == [kind |-> "Remove", params |-> params]
DisAdd(params) == [kind |-> "Add", params |-> params]
DisReplace(params) == [kind |-> "Replace", params |-> params]
DisFilter(params) == [kind |-> "Filter", params |-> params]
DisUnify(filters, disambigs, mask) ==
    [kind |-> "Unify", filters |-> filters, disambigs |-> disambigs, mask |-> mask]
DisNop == [kind |-> "Nop"]

\* The tags of `token` after Remove with parameter `param`.
RemoveTags(param, token) ==
    IF param.side = "Left"
    THEN LET Keep(x) == ~(x.pos = param.data.pos
                          /\ (param.data.lemma = "" \/ x.lemma = param.data.lemma))
         IN SelectSeq(token.tags, Keep)
    ELSE FilterRemove(param.filter, token.tags)

\* let last = token.word.tags.get(0).map_or(token.word.text, |x| x.lemma)
LastLemma(token) ==
    IF token.tags = <<>> THEN token.text ELSE token.tags[1].lemma

\* The fallback tag with retain_last ignored.
FallbackTagOfText(limit, token, retain_last) == WordData(token.text, limit.pos)

\* The tag pushed when Filter with a WordData limit has emptied the tags.
FallbackTag(limit, token, retain_last) ==
    WordData(IF retain_last THEN LastLemma(token) ELSE token.text, limit.pos)

\* The tags of `token` after Filter with parameter `param` (an Option).
FilterTags(param, token, retain_last) ==
    IF ~param.some
    THEN token.tags
    ELSE IF param.val.side = "Left"
         THEN LET limit == param.val.data
                  Keep(x) == x.pos = limit.pos
                  kept == SelectSeq(token.tags, Keep)
              IN IF kept = <<>>
                 THEN <<FallbackTag(limit, token, retain_last)>>
                 ELSE kept
         ELSE FilterKeep(param.val.filter, token.tags)

\* The WordData that Add and Replace build from their parameter.
NewWordData(data, token) ==
    WordData(IF data.lemma = "" THEN token.text ELSE data.lemma, data.pos)

\* The tags of `token` after Add: push, then retain(|x| !x.pos.is_empty()).
AddTags(data, token) ==
    LET Keep(x) == x.pos # ""
    IN SelectSeq(Append(token.tags, NewWordData(data, token)), Keep)

\* The tags of `token` after Replace: clear, then push.
ReplaceTags(data, token) == <<NewWordData(data, token)>>

\* Iterator::zip ends with the shorter of its two sides.
ZipLen(a, b) == IF Len(a) <= Len(b) THEN Len(a) ELSE Len(b)

\* Whether token index i is one of the references of groups[g].
InGroup(groups, g, i) == \E k \in 1..Len(groups[g]) : groups[g][k] = i

\* The tokens after `for (group, param) in groups.zip(params)`, n pairs,
\* `for token in group`: the tags of token i of group g become new_tags[g, i].
\* The groups hold mutable references to distinct tokens.
ForEachGroupToken(toks, groups, n, new_tags) ==
    [i \in 1..Len(toks) |->
        IF \E g \in 1..n : InGroup(groups, g, i)
        THEN LET g == CHOOSE h \in 1..n : InGroup(groups, h, i)
             IN [toks[i] EXCEPT !.tags = new_tags[g, i]]
        ELSE toks[i]]

\* itertools multi_cartesian_product: one filter of every list, the last
\* list varying fastest.
RECURSIVE CartesianProduct(_)
CartesianProduct(lists) ==
    IF lists = <<>>
    THEN << <<>> >>
    ELSE LET rest == CartesianProduct(Tail(lists))
             h == Head(lists)
         IN [n \in 1..(Len(h) * Len(rest)) |->
                <<h[((n - 1) \div Len(rest)) + 1]>> \o rest[((n - 1) % Len(rest)) + 1]]

\* The tags of the complete Token that `(*token).clone().into()` makes of an
\* incomplete token.
FinalizedTags(token) == token.tags

\* Unify's first loop without `if *use_mask_val`: every group counts.
UnifyFilterMaskAllGroups(filters, toks, groups, mask) ==
    [k \in 1..Len(filters) |->
        \A g \in 1..ZipLen(groups, mask) :
            \A j \in 1..Len(groups[g]) :
                FilterAnd(filters[k], FinalizedTags(toks[groups[g][j]]))]

\* Unify, first loop: filter_mask[k] after all tokens of the masked groups.
UnifyFilterMask(filters, toks, groups, mask) ==
    [k \in 1..Len(filters) |->
        \A g \in 1..ZipLen(groups, mask) :
            mask[g] => \A j \in 1..Len(groups[g]) :
                           FilterAnd(filters[k], FinalizedTags(toks[groups[g][j]]))]

\* Unify's second loop without `if token.word.tags.is_empty() { restore }`.
UnifyTagsNoRestore(to_apply, disambig, token) ==
    LET applied == FilterApply(to_apply, token.tags)
    IN IF disambig.some THEN FilterKeep(disambig.val, applied) ELSE applied

\* The tags of a token of a masked group after Unify's second loop.
UnifyTags(to_apply, disambig, token) ==
    LET applied == FilterApply(to_apply, token.tags)
        kept == IF disambig.some THEN FilterKeep(disambig.val, applied) ELSE applied
    IN IF kept = <<>> THEN token.tags ELSE kept

UnifyApply(op, toks, groups) ==
    LET filters == CartesianProduct(op.filters)
        filter_mask == UnifyFilterMask(filters, toks, groups, op.mask)
        Active(k) == filter_mask[k]
        actives == SelectSeq([k \in 1..Len(filters) |-> k], Active)
        to_apply == [n \in 1..Len(actives) |-> filters[actives[n]]]
        n2 == ZipLen([i \in 1..ZipLen(groups, op.disambigs) |-> i], op.mask)
    IN IF actives = <<>>
       THEN toks
       ELSE ForEachGroupToken(toks, groups, n2,
                [g \in 1..n2, i \in 1..Len(toks) |->
                    IF op.mask[g]
                    THEN UnifyTags(to_apply, op.disambigs[g], toks[i])
                    ELSE toks[i].tags])

\* The tokens after an operator with one parameter per group.
PerGroupApply(op, toks, groups, retain_last) ==
    LET n == ZipLen(groups, op.params)
    IN ForEachGroupToken(toks, groups, n,
            [g \in 1..n, i \in 1..Len(toks) |->
                CASE op.kind = "Remove" -> RemoveTags(op.params[g], toks[i])
                  [] op.kind = "Filter" -> FilterTags(op.params[g], toks[i], retain_last)
                  [] op.kind = "Add" -> AddTags(op.params[g], toks[i])
                  [] op.kind = "Replace" -> ReplaceTags(op.params[g], toks[i])])

\* Disambiguation::apply(groups, retain_last): the tokens afterwards.
\* `toks` are the incomplete tokens, `groups` the per-group token indices.
DisambiguationApply(op, toks, groups, retain_last) ==
    CASE op.kind \in {"Remove", "Filter", "Add", "Replace"} ->
            PerGroupApply(op, toks, groups, retain_last)
      [] op.kind = "Unify" -> UnifyApply(op, toks, groups)
      [] op.kind = "Nop" -> toks

\* -------------------------------------------------------------- MatchGraph

\* Group::new(char_span)
Group(char_span) == [char_span |-> char_span]

\* MatchGraph::new(groups, id_to_idx, tokens): the groups in order and the
\* map from group id to 0-based group position.  The tokens a graph borrows
\* are the tokens of the call, which the operators below take as a parameter.
MatchGraph(groups, id_to_idx) == [groups |-> groups, id_to_idx |-> id_to_idx]

\* graph.by_index(i), for 0 <= i < groups.len()
ByIndex(graph, i) == graph.groups[i + 1]

\* graph.get_index(id): Option of the 0-based position
GetIndex(graph, id) ==
    IF id \in DOMAIN graph.id_to_idx /\ graph.id_to_idx[id] < Len(graph.groups)
    THEN Some(graph.id_to_idx[id])
    ELSE None

\* graph.by_id(id): Option of the group
ById(graph, id) ==
    IF GetIndex(graph, id).some
    THEN Some(ByIndex(graph, GetIndex(graph, id).val))
    ELSE None

\* The overall character span of a graph: from the start of its first group
\* to the end of its last group.
OverallSpan(graph) ==
    <<ByIndex(graph, 0).char_span[1],
      ByIndex(graph, Len(graph.groups) - 1).char_span[2]>>

\* ------------------------------------------------------------- TokenEngine

\* A Composition, as far as the engine sees it: apply(tokens, i) for the
\* tokens of the call, as a table from anchor i (0-based) to an Option of a
\* graph, and can_not_match, as the set of words it holds for.
Composition(matches, can_not) == [matches |-> matches, can_not |-> can_not]

\* composition.apply(tokens, i)
CompositionApply(composition, i) == composition.matches[i + 1]

\* composition.can_not_match(word)
CanNotMatch(composition, word) == word \in composition.can_not

\* struct TokenEngine
TokenEngine(composition, antipatterns) ==
    [kind |-> "Token", composition |-> composition, antipatterns |-> antipatterns]

\* The overlap test on half-open spans: touching spans do not overlap.
SpansOverlapHalfOpen(anti, rule) == anti[1] < rule[2] /\ rule[1] < anti[2]

\* if anti_start <= rule_end && rule_start <= anti_end
SpansOverlap(anti, rule) == anti[1] <= rule[2] /\ rule[1] <= anti[2]

\* The inner loop of get_match at anchor i: `for antipattern in
\* &self.antipatterns`, from antipattern k on, until one blocks.
RECURSIVE BlockedByAntipatternFrom(_, _, _, _)
BlockedByAntipatternFrom(engine, graph, i, k) ==
    IF k > Len(engine.antipatterns)
    THEN FALSE
    ELSE LET anti_graph == CompositionApply(engine.antipatterns[k], i)
         IN IF anti_graph.some
               /\ SpansOverlap(OverallSpan(anti_graph.val), OverallSpan(graph))
            THEN TRUE
            ELSE BlockedByAntipatternFrom(engine, graph, i, k + 1)

\* The outer loop of get_match: `for i in 0..tokens.len()`, from i on, until
\* an antipattern blocks.
RECURSIVE BlockedFrom(_, _, _, _)
BlockedFrom(engine, graph, ntokens, i) ==
    IF i >= ntokens
    THEN FALSE
    ELSE IF BlockedByAntipatternFrom(engine, graph, i, 1)
         THEN TRUE
         ELSE BlockedFrom(engine, graph, ntokens, i + 1)

\* TokenEngine::get_match(tokens, i): Option of a graph.
GetMatch(engine, ntokens, i) ==
    LET graph == CompositionApply(engine.composition, i)
    IN IF graph.some /\ ~BlockedFrom(engine, graph.val, ntokens, 0)
       THEN graph
       ELSE None

\* ------------------------------------------------------------ the sentence

\* The number of bytes of a character in UTF-8.
CharWidth(c) == IF c \in {"ä", "é"} THEN 2 ELSE 1

\* The byte offset of character k (0-based) of the text; of its end for
\* k = the number of characters.
RECURSIVE ByteOffset(_, _)
ByteOffset(text, k) ==
    IF k = 0 THEN 0 ELSE ByteOffset(text, k - 1) + CharWidth(text[k])

\* byte_to_char_idx: text.char_indices().enumerate().map(|(ci, (bi, _))|
\* (bi, ci)), then insert(text.len(), byte_to_char_idx.len()).
ByteToCharIdx(text) ==
    LET starts == {ByteOffset(text, k) : k \in 0..(Len(text) - 1)}
        CharAt(b) == CHOOSE k \in 0..(Len(text) - 1) : ByteOffset(text, k) = b
    IN [b \in starts \cup {ByteOffset(text, Len(text))} |->
            IF b \in starts THEN CharAt(b) ELSE Cardinality(starts)]

\* ------------------------------------------------------------------ Engine

\* Engine::Text(regex, id_to_idx): the regex given by its captures on the
\* text of the call: per match, per capture group, an Option of a byte span.
TextEngine(captures, id_to_idx) ==
    [kind |-> "Text", captures |-> captures, id_to_idx |-> id_to_idx]

\* One candidate of the token branch: (graph, start, end).
GraphInfo(graph, start, end) == [graph |-> graph, start |-> start, end |-> end]

\* The closure of filter_map at anchor i: None, Some((graph, start, end)),
\* or a panic when the graph lacks group `start` or group `end - 1`.
GraphInfoAt(engine, ntokens, i, start, end) ==
    LET m == GetMatch(engine, ntokens, i)
    IN IF ~m.some
       THEN Ok(None)
       ELSE IF ~ById(m.val, start).some \/ end < 1 \/ ~ById(m.val, end - 1).some
            THEN Panic
            ELSE Ok(Some(GraphInfo(m.val,
                                   ById(m.val, start).val.char_span[1],
                                   ById(m.val, end - 1).val.char_span[2])))

\* .filter(|i| skip_mask.map_or(true, |x| !x[*i])): x[i] panics past the mask.
Skipped(skip_mask, i) == skip_mask.some /\ skip_mask.val[i + 1]

\* The candidates of anchors i.. in anchor order, or a panic.
RECURSIVE GraphInfosFrom(_, _, _, _, _, _)
GraphInfosFrom(engine, ntokens, skip_mask, start, end, i) ==
    IF i >= ntokens
    THEN Ok(<<>>)
    ELSE IF skip_mask.some /\ i >= Len(skip_mask.val)
    THEN Panic
    ELSE LET here == IF Skipped(skip_mask, i)
                     THEN Ok(None)
                     ELSE GraphInfoAt(engine, ntokens, i, start, end)
             rest == GraphInfosFrom(engine, ntokens, skip_mask, start, end, i + 1)
         IN IF IsPanic(here) \/ IsPanic(rest)
            THEN Panic
            ELSE Ok((IF here.val.some THEN <<here.val.val>> ELSE <<>>) \o rest.val)

\* The candidates left in anchor order.
UnsortedByStart(infos) == infos

\* x put into a list sorted by start, behind every element whose start is
\* not greater: the stable order.
RECURSIVE InsertByStart(_, _)
InsertByStart(sorted, x) ==
    IF sorted = <<>>
    THEN <<x>>
    ELSE IF Head(sorted).start <= x.start
         THEN <<Head(sorted)>> \o InsertByStart(Tail(sorted), x)
         ELSE <<x>> \o sorted

\* sort_by(|(_, start, _), (_, end, _)| start.cmp(end)): both names bind the
\* second component, the start, of the two candidates compared; the sort is
\* stable.
RECURSIVE SortByStart(_)
SortByStart(infos) ==
    IF infos = <<>>
    THEN <<>>
    ELSE InsertByStart(SortByStart(SubSeq(infos, 1, Len(infos) - 1)),
                       infos[Len(infos)])

\* mask[start..end] panics when start > end or end > mask.len().
SliceInRange(start, end, len) == start <= end /\ end <= len

\* mask[start..end].iter().all(|x| !x), mask given by its set positions.
RangeFree(mask, start, end) == Slice(start, end) \cap mask = {}

\* The loop over the sorted candidates from candidate k on: the graphs
\* accepted, or a panic.
RECURSIVE AcceptFrom(_, _, _, _, _)
AcceptFrom(infos, k, mask, text_len, graphs) ==
    IF k > Len(infos)
    THEN Ok(graphs)
    ELSE LET info == infos[k]
         IN IF ~SliceInRange(info.start, info.end, text_len)
            THEN Panic
            ELSE IF RangeFree(mask, info.start, info.end)
                 THEN AcceptFrom(infos, k + 1, mask \cup Slice(info.start, info.end),
                                 text_len, Append(graphs, info.graph))
                 ELSE AcceptFrom(infos, k + 1, mask, text_len, graphs)

\* Engine::get_matches, Token branch.
GetMatchesToken(engine, ntokens, text_len, skip_mask, start, end) ==
    LET infos == GraphInfosFrom(engine, ntokens, skip_mask, start, end, 0)
    IN IF IsPanic(infos)
       THEN Panic
       ELSE AcceptFrom(SortByStart(infos.val), 1, {}, text_len, <<>>)

\* The group of one capture: its byte span mapped to a character span, (0, 0)
\* for an absent capture; a panic for a byte offset that starts no character.
CaptureGroup(capture, byte_to_char_idx) ==
    IF ~capture.some
    THEN Ok(Group(<<0, 0>>))
    ELSE IF capture.val[1] \notin DOMAIN byte_to_char_idx
            \/ capture.val[2] \notin DOMAIN byte_to_char_idx
         THEN Panic
         ELSE Ok(Group(<<byte_to_char_idx[capture.val[1]],
                         byte_to_char_idx[capture.val[2]]>>))

\* Engine::get_matches, Text branch: one graph per match of the regex.
GetMatchesText(engine, text) ==
    LET b2c == ByteToCharIdx(text)
        GroupsOf(m) == [g \in 1..Len(m) |-> CaptureGroup(m[g], b2c)]
        Bad(m) == \E g \in 1..Len(m) : IsPanic(GroupsOf(m)[g])
    IN IF \E n \in 1..Len(engine.captures) : Bad(engine.captures[n])
       THEN Panic
       ELSE Ok([n \in 1..Len(engine.captures) |->
                   MatchGraph([g \in 1..Len(engine.captures[n]) |->
                                  GroupsOf(engine.captures[n])[g].val],
                              engine.id_to_idx)])

\* Engine::get_matches(tokens, skip_mask, start, end): Ok(graphs) or Panic.
\* ntokens = tokens.len(), text = tokens[0].text, the text of the sentence.
GetMatches(engine, ntokens, text, skip_mask, start, end) ==
    IF ntokens = 0
    THEN Panic
    ELSE IF engine.kind = "Token"
    THEN GetMatchesToken(engine, ntokens, Len(text), skip_mask, start, end)
    ELSE GetMatchesText(engine, text)

\* ----------------------------------------------------------------- strings

\* Strings are sequences of characters.  The letters and their cases.
LowerLetters == <<"a", "b", "c", "d", "ä", "x", "y">>
UpperLetters == <<"A", "B", "C", "D", "Ä", "X", "Y">>

IndexIn(letters, c) == CHOOSE n \in 1..Len(letters) : letters[n] = c
IsIn(letters, c) == \E n \in 1..Len(letters) : letters[n] = c

\* char::to_uppercase, char::to_lowercase, char::is_uppercase
ToUpper(c) == IF IsIn(LowerLetters, c) THEN UpperLetters[IndexIn(LowerLetters, c)] ELSE c
ToLower(c) == IF IsIn(UpperLetters, c) THEN LowerLetters[IndexIn(UpperLetters, c)] ELSE c
IsUppercase(c) == IsIn(UpperLetters, c)

AllUpper(str) == [n \in 1..Len(str) |-> ToUpper(str[n])]
AllLower(str) == [n \in 1..Len(str) |-> ToLower(str[n])]

\* utils::apply_to_first with to_uppercase / to_lowercase
FirstUpper(str) == IF str = <<>> THEN str ELSE <<ToUpper(str[1])>> \o Tail(str)
FirstLower(str) == IF str = <<>> THEN str ELSE <<ToLower(str[1])>> \o Tail(str)

\* utils::normalize_whitespace: runs of whitespace become one space, and the
\* ends are trimmed.
RECURSIVE CollapseSpaces(_)
CollapseSpaces(str) ==
    IF Len(str) < 2
    THEN str
    ELSE IF str[1] = " " /\ str[2] = " "
         THEN CollapseSpaces(Tail(str))
         ELSE <<str[1]>> \o CollapseSpaces(Tail(str))

TrimStart(str) == IF str # <<>> /\ str[1] = " " THEN Tail(str) ELSE str
TrimEnd(str) ==
    IF str # <<>> /\ str[Len(str)] = " " THEN SubSeq(str, 1, Len(str) - 1) ELSE str

NormalizeWhitespace(str) == TrimEnd(TrimStart(CollapseSpaces(str)))

\* utils::no_space_chars: the punctuation that takes no space before it.
NoSpaceChars == {",", ".", ";", ":", "!", "?", ")"}

\* utils::fix_nospace_chars: a space before a no-space character is dropped.
RECURSIVE FixNospaceChars(_)
FixNospaceChars(str) ==
    IF Len(str) < 2
    THEN str
    ELSE IF str[1] = " " /\ str[2] \in NoSpaceChars
         THEN FixNospaceChars(Tail(str))
         ELSE <<str[1]>> \o FixNospaceChars(Tail(str))

\* x.starts_with(c) for some c of no_space_chars
StartsWithNoSpaceChar(str) == str # <<>> /\ str[1] \in NoSpaceChars

\* Group::text: the characters of the sentence in the group's char_span.
GroupText(group, text) ==
    IF group.char_span[1] >= group.char_span[2]
    THEN <<>>
    ELSE SubSeq(text, group.char_span[1] + 1, group.char_span[2])

\* Group::tokens: the tokens of the call, as 0-based indices, that have a
\* non-empty char_span lying within the group's char_span.
GroupTokens(group, tokens) ==
    LET In(n) == /\ tokens[n].char_span[1] < tokens[n].char_span[2]
                 /\ tokens[n].char_span[1] >= group.char_span[1]
                 /\ tokens[n].char_span[2] <= group.char_span[2]
        idx == SelectSeq([n \in 1..Len(tokens) |-> n], In)
    IN [n \in 1..Len(idx) |-> idx[n] - 1]

\* ------------------------------------------------------------------ tagger

\* The tagger, as far as the rules see it: get_tags(word), the readings of a
\* word, and get_group_members(lemma), the words of a lemma's family.
Tagger(tags, members) == [tags |-> tags, members |-> members]

TaggerGetTags(tagger, word) ==
    IF word \in DOMAIN tagger.tags THEN tagger.tags[word] ELSE <<>>

TaggerGetGroupMembers(tagger, lemma) ==
    IF lemma \in DOMAIN tagger.members THEN tagger.members[lemma] ELSE <<>>

\* ------------------------------------------------------------- PosReplacer

\* struct PosReplacer: the matcher given by the set of pos it matches.
PosReplacer(matches) == [matches |-> matches]

\* .position(|x| self.matcher.is_match(x.pos, &graph)): Option of the
\* 0-based index of the first reading whose pos matches.
FirstMatchingTag(replacer, tags) ==
    IF \E n \in 1..Len(tags) : tags[n].pos \in replacer.matches
    THEN Some((CHOOSE n \in 1..Len(tags) :
                  /\ tags[n].pos \in replacer.matches
                  /\ \A k \in 1..(n - 1) : tags[k].pos \notin replacer.matches) - 1)
    ELSE None

\* The closure of map for one reading x of the text: data.
RECURSIVE MemberData(_, _, _)
MemberData(replacer, tagger, words) ==
    IF words = <<>>
    THEN <<>>
    ELSE LET i == FirstMatchingTag(replacer, TaggerGetTags(tagger, Head(words)))
         IN (IF i.some THEN <<[word |-> Head(words), i |-> i.val]>> ELSE <<>>)
            \o MemberData(replacer, tagger, Tail(words))

\* .rev().flatten(): the data of the readings, last reading first.
RECURSIVE RevFlatten(_, _, _)
RevFlatten(replacer, tagger, readings) ==
    IF readings = <<>>
    THEN <<>>
    ELSE RevFlatten(replacer, tagger, Tail(readings))
         \o MemberData(replacer, tagger,
                       TaggerGetGroupMembers(tagger, Head(readings).lemma))

RECURSIVE InsertByI(_, _)
InsertByI(sorted, x) ==
    IF sorted = <<>>
    THEN <<x>>
    ELSE IF Head(sorted).i <= x.i
         THEN <<Head(sorted)>> \o InsertByI(Tail(sorted), x)
         ELSE <<x>> \o sorted

\* candidates.sort_by(|(_, a), (_, b)| a.cmp(b)), a stable sort
RECURSIVE SortByI(_)
SortByI(cands) ==
    IF cands = <<>>
    THEN <<>>
    ELSE InsertByI(SortByI(SubSeq(cands, 1, Len(cands) - 1)), cands[Len(cands)])

\* if candidates.is_empty() { None } else { Some(candidates.remove(0).0) }
FirstCandidate(candidates) ==
    IF candidates = <<>> THEN None ELSE Some(candidates[1].word)

\* PosReplacer::apply(text, tokenizer): Option of a word.
PosReplacerApply(replacer, text, tagger) ==
    FirstCandidate(SortByI(RevFlatten(replacer, tagger, TaggerGetTags(tagger, text))))

\* ------------------------------------------------------------- Synthesizer

\* Match::new(id, conversion, pos_replacer, regex_replacer); the regex
\* replacer is given as Option of <<character, replacement>>: every
\* occurrence of the character is replaced.
Match(id, conversion, pos_replacer, regex_replacer) ==
    [part |-> "Match", id |-> id, conversion |-> conversion,
     pos_replacer |-> pos_replacer, regex_replacer |-> regex_replacer]

\* SynthesizerPart::Text(t)
TextPart(t) == [part |-> "Text", text |-> t]

\* struct Synthesizer
Synthesizer(use_titlecase_adjust, parts) ==
    [use_titlecase_adjust |-> use_titlecase_adjust, parts |-> parts]

\* Conversion::convert
Convert(conversion, input) ==
    CASE conversion = "Nop" -> input
      [] conversion = "AllLower" -> AllLower(input)
      [] conversion = "StartLower" -> FirstLower(input)
      [] conversion = "AllUpper" -> AllUpper(input)
      [] conversion = "StartUpper" -> FirstUpper(input)

\* regex.replace_all(&text, ...)
RECURSIVE ReplaceAll(_, _, _)
ReplaceAll(str, c, replacement) ==
    IF str = <<>>
    THEN <<>>
    ELSE (IF Head(str) = c THEN replacement ELSE <<Head(str)>>)
         \o ReplaceAll(Tail(str), c, replacement)

\* Match::apply after the pos_replacer: the regex_replacer and the conversion.
MatchConvert(m, replaced) ==
    IF ~replaced.some
    THEN Ok(None)
    ELSE Ok(Some(Convert(m.conversion,
                         IF m.regex_replacer.some
                         THEN ReplaceAll(replaced.val, m.regex_replacer.val[1],
                                         m.regex_replacer.val[2])
                         ELSE replaced.val)))

\* Match::apply(graph, tokenizer): Ok(Option of a string), or Panic when the
\* graph lacks the group.
MatchApply(m, graph, text, tagger) ==
    IF ~ById(graph, m.id).some
    THEN Panic
    ELSE MatchConvert(m, IF m.pos_replacer.some
                         THEN PosReplacerApply(m.pos_replacer.val,
                                               GroupText(ById(graph, m.id).val, text),
                                               tagger)
                         ELSE Some(GroupText(ById(graph, m.id).val, text)))

\* Match::has_conversion
HasConversion(m) == m.conversion # "Nop"

\* output.push(...) of one part in front of the output of the parts after
\* it: `?` ends the synthesizer with None, a panic ends the call.
PushPart(here, rest) ==
    IF IsPanic(here)
    THEN Panic
    ELSE IF ~here.val.some
         THEN Ok(None)
         ELSE IF IsPanic(rest)
              THEN Panic
              ELSE IF ~rest.val.some
                   THEN Ok(None)
                   ELSE Ok(Some(here.val.val \o rest.val.val))

\* The loop over the parts from part k on: Ok(Some(output joined)), Ok(None)
\* when a Match yields none, or Panic.
RECURSIVE SynthesizerOutput(_, _, _, _, _)
SynthesizerOutput(parts, k, graph, text, tagger) ==
    IF k > Len(parts)
    THEN Ok(Some(<<>>))
    ELSE PushPart(IF parts[k].part = "Text"
                  THEN Ok(Some(parts[k].text))
                  ELSE MatchApply(parts[k], graph, text, tagger),
                  SynthesizerOutput(parts, k + 1, graph, text, tagger))

\* graph.groups()[graph.get_index(start).unwrap()..].iter().find(|x|
\* !x.tokens(graph.tokens()).is_empty()): Ok(Option of the 0-based index of
\* the first token of that group), or Panic when the graph lacks group start.
FirstTokenFrom(graph, tokens, start) ==
    IF ~GetIndex(graph, start).some
    THEN Panic
    ELSE LET from == GetIndex(graph, start).val + 1
             NonEmpty(n) == GroupTokens(graph.groups[n], tokens) # <<>>
         IN IF \E n \in from..Len(graph.groups) : NonEmpty(n)
            THEN LET n == CHOOSE n \in from..Len(graph.groups) :
                              NonEmpty(n) /\ \A k \in from..(n - 1) : ~NonEmpty(k)
                 IN Ok(Some(GroupTokens(graph.groups[n], tokens)[1]))
            ELSE Ok(None)

\* The closure of map in make_uppercase, for the first token found (an
\* Option of its 0-based index): Ok(BOOLEAN), or Panic for a token without
\* a character.
IsTitleOrFirst(synth, tokens, first) ==
    IF IsPanic(first)
    THEN Panic
    ELSE IF ~first.val.some
         THEN Ok(FALSE)
         ELSE IF synth.use_titlecase_adjust /\ tokens[first.val.val + 1].text = <<>>
              THEN Panic
              ELSE Ok(\/ (synth.use_titlecase_adjust
                             /\ IsUppercase(tokens[first.val.val + 1].text[1]))
                      \/ tokens[first.val.val + 1].byte_span[1] = 0)

\* make_uppercase without `!starts_with_conversion`.
MakeUppercaseAnyFirstPart(synth, graph, tokens, start) ==
    IsTitleOrFirst(synth, tokens, FirstTokenFrom(graph, tokens, start))

\* make_uppercase of Synthesizer::apply: Ok(BOOLEAN) or Panic.
MakeUppercase(synth, graph, tokens, start) ==
    IF synth.parts # <<>> /\ synth.parts[1].part = "Match" /\ HasConversion(synth.parts[1])
    THEN Ok(FALSE)
    ELSE IsTitleOrFirst(synth, tokens, FirstTokenFrom(graph, tokens, start))

\* if make_uppercase { Some(apply_to_first(...)) } else { Some(suggestion) }
AdjustCase(suggestion, make_uppercase) ==
    IF IsPanic(make_uppercase)
    THEN Panic
    ELSE IF make_uppercase.val
         THEN Ok(Some(FirstUpper(suggestion)))
         ELSE Ok(Some(suggestion))

\* Synthesizer::apply after the loop over the parts.
SynthesizerFinish(synth, graph, tokens, start, output) ==
    IF IsPanic(output)
    THEN Panic
    ELSE IF ~output.val.some
         THEN Ok(None)
         ELSE AdjustCase(NormalizeWhitespace(output.val.val),
                         MakeUppercase(synth, graph, tokens, start))

\* Synthesizer::apply(graph, tokenizer, start, end): Ok(Option of a string)
\* or Panic.
SynthesizerApply(synth, graph, tokens, text, tagger, start) ==
    SynthesizerFinish(synth, graph, tokens, start,
                      SynthesizerOutput(synth.parts, 1, graph, text, tagger))

\* -------------------------------------------------------------------- Rule

\* struct Rule (the tests left out)
Rule(id, engine, suggesters, message, start, end, on) ==
    [id |-> id, engine |-> engine, suggesters |-> suggesters, message |-> message,
     start |-> start, end |-> end, on |-> on]

\* One step of filter_map(...).collect(): the element `here` yields, if any,
\* in front of those of the elements after it; a panic ends the call.
FilterMapCons(here, rest) ==
    IF IsPanic(here) \/ IsPanic(rest)
    THEN Panic
    ELSE Ok((IF here.val.some THEN <<here.val.val>> ELSE <<>>) \o rest.val)

\* self.suggesters.iter().filter_map(|x| x.apply(...)).collect(), from
\* suggester k on: Ok(the texts) or Panic.
RECURSIVE SuggesterTexts(_, _, _, _, _, _)
SuggesterTexts(rule, k, graph, tokens, text, tagger) ==
    IF k > Len(rule.suggesters)
    THEN Ok(<<>>)
    ELSE FilterMapCons(SynthesizerApply(rule.suggesters[k], graph, tokens, text,
                                        tagger, rule.start),
                       SuggesterTexts(rule, k + 1, graph, tokens, text, tagger))

\* The start when every text starts with a no-space character, without the
\* step to the token before the first token found.
AbsorbedStartOfGroup(rule, graph, tokens, first) ==
    IF IsPanic(first) \/ ~first.val.some
    THEN Panic
    ELSE Ok(ById(graph, rule.start).val.char_span[1])

\* The start when every text starts with a no-space character: the end of
\* the token before the first token found (`first`), if there is one before
\* it; Panic when no group from `start` on has tokens.
AbsorbedStart(rule, graph, tokens, first) ==
    IF IsPanic(first) \/ ~first.val.some
    THEN Panic
    ELSE IF first.val.val > 0
         THEN Ok(tokens[first.val.val].char_span[2])
         ELSE Ok(ById(graph, rule.start).val.char_span[1])

\* `let start = ...`
SuggestionStart(rule, graph, tokens, texts) ==
    IF \A n \in 1..Len(texts) : StartsWithNoSpaceChar(texts[n])
    THEN AbsorbedStart(rule, graph, tokens, FirstTokenFrom(graph, tokens, rule.start))
    ELSE Ok(ById(graph, rule.start).val.char_span[1])

\* suggestions.push(Suggestion { message: ...expect(...), ... })
PushSuggestion(rule, graph, start, texts, message) ==
    IF IsPanic(message) \/ ~message.val.some
    THEN Panic
    ELSE Ok(Some(Suggestion(rule.id, message.val.val, start,
                            ById(graph, rule.end - 1).val.char_span[2], texts)))

\* The body of the loop of Rule::apply from `let start` on.
SuggestionFrom(rule, graph, tokens, text, tagger, texts, start) ==
    IF IsPanic(start)
    THEN Panic
    ELSE IF texts = <<>>
         THEN Ok(None)
         ELSE PushSuggestion(rule, graph, start.val,
                             [n \in 1..Len(texts) |-> FixNospaceChars(texts[n])],
                             SynthesizerApply(rule.message, graph, tokens, text,
                                              tagger, rule.start))

\* The body of the loop of Rule::apply from `let text` on.
SuggestionOfTexts(rule, graph, tokens, text, tagger, texts) ==
    IF IsPanic(texts)
    THEN Panic
    ELSE SuggestionFrom(rule, graph, tokens, text, tagger, texts.val,
                        SuggestionStart(rule, graph, tokens, texts.val))

\* The body of the loop of Rule::apply for one graph: Ok(Option of a
\* suggestion) or Panic.
SuggestionOf(rule, graph, tokens, text, tagger) ==
    IF ~ById(graph, rule.start).some \/ rule.end < 1 \/ ~ById(graph, rule.end - 1).some
    THEN Panic
    ELSE SuggestionOfTexts(rule, graph, tokens, text, tagger,
                           SuggesterTexts(rule, 1, graph, tokens, text, tagger))

\* The loop of Rule::apply over the graphs from graph k on.
RECURSIVE SuggestionsFrom(_, _, _, _, _, _)
SuggestionsFrom(rule, graphs, k, tokens, text, tagger) ==
    IF k > Len(graphs)
    THEN Ok(<<>>)
    ELSE FilterMapCons(SuggestionOf(rule, graphs[k], tokens, text, tagger),
                       SuggestionsFrom(rule, graphs, k + 1, tokens, text, tagger))

\* Rule::apply over the outcome of get_matches.
SuggestionsOfGraphs(rule, graphs, tokens, text, tagger) ==
    IF IsPanic(graphs)
    THEN Panic
    ELSE SuggestionsFrom(rule, graphs.val, 1, tokens, text, tagger)

\* Rule::apply(tokens, skip_mask, tokenizer): Ok(suggestions) or Panic.
\* text = tokens[0].text, the text of the sentence.
RuleApply(rule, tokens, text, skip_mask, tagger) ==
    SuggestionsOfGraphs(rule,
                        GetMatches(rule.engine, Len(tokens), text, skip_mask,
                                   rule.start, rule.end),
                        tokens, text, tagger)

\* ------------------------------------------------------------------- Cache

\* struct Cache: per word, one flag per engine.
EmptyCache == [w \in {} |-> <<>>]

\* Cache::get_skip_mask(texts, i): Ok(one flag per token) or Panic when a
\* cached word has no flag i.
CacheGetSkipMask(cache, tokens, i) ==
    IF \E n \in 1..Len(tokens) :
           tokens[n].text \in DOMAIN cache /\ i >= Len(cache[tokens[n].text])
    THEN Panic
    ELSE Ok([n \in 1..Len(tokens) |->
                IF tokens[n].text \in DOMAIN cache
                THEN cache[tokens[n].text][i + 1]
                ELSE FALSE])

\* Cache::populate with the flags pushed from the last engine to the first.
CachePopulateReversed(cache, common_words, engines) ==
    LET flags(word) ==
            [e \in 1..Len(engines) |->
                IF engines[Len(engines) + 1 - e].kind = "Token"
                THEN CanNotMatch(engines[Len(engines) + 1 - e].composition, word)
                ELSE FALSE]
    IN [w \in DOMAIN cache \cup common_words |->
           (IF w \in DOMAIN cache THEN cache[w] ELSE <<>>)
           \o (IF w \in common_words THEN flags(w) ELSE <<>>)]

\* Cache::populate(common_words, engines): every common word gets one more
\* flag per engine, in engine order.
CachePopulate(cache, common_words, engines) ==
    LET flags(word) ==
            [e \in 1..Len(engines) |->
                IF engines[e].kind = "Token"
                THEN CanNotMatch(engines[e].composition, word)
                ELSE FALSE]
    IN [w \in DOMAIN cache \cup common_words |->
           (IF w \in DOMAIN cache THEN cache[w] ELSE <<>>)
           \o (IF w \in common_words THEN flags(w) ELSE <<>>)]

\* ------------------------------------------------------------------- Rules

\* Rules::populate_cache(common_words): the cache afterwards.
RulesPopulateCache(rules, cache, common_words) ==
    CachePopulate(cache, common_words, [i \in 1..Len(rules) |-> rules[i].engine])

\* The closure of map for the rule at 0-based index i: Ok(its suggestions)
\* or Panic.
RuleClosure(rules, cache, tokens, text, tagger, i) ==
    LET skip_mask == CacheGetSkipMask(cache, tokens, i)
    IN IF IsPanic(skip_mask)
       THEN Panic
       ELSE RuleApply(rules[i + 1], tokens, text, Some(skip_mask.val), tagger)

\* The results of the closures joined in the order the closures completed.
RECURSIVE FlattenInCompletionOrder(_, _)
FlattenInCompletionOrder(slots, order) ==
    IF order = <<>>
    THEN <<>>
    ELSE slots[Head(order)].val \o FlattenInCompletionOrder(slots, Tail(order))

\* .flatten().collect() of the indexed parallel iterator: the results of the
\* closures joined in rule-vector order, whatever order they completed in.
RECURSIVE FlattenInRuleOrder(_, _)
FlattenInRuleOrder(slots, order) ==
    IF slots = <<>>
    THEN <<>>
    ELSE FlattenInRuleOrder(SubSeq(slots, 1, Len(slots) - 1), order)
         \o (IF IsOk(slots[Len(slots)]) THEN slots[Len(slots)].val ELSE <<>>)

\* The output left in the order of the rule vector.
UnsortedOutput(output) == output

\* x put into a list sorted by start, before every element whose start is
\* not smaller.
RECURSIVE InsertBeforeTies(_, _)
InsertBeforeTies(sorted, x) ==
    IF sorted = <<>>
    THEN <<x>>
    ELSE IF Head(sorted).start < x.start
         THEN <<Head(sorted)>> \o InsertBeforeTies(Tail(sorted), x)
         ELSE <<x>> \o sorted

\* A sort by start that puts later elements first among equal starts.
RECURSIVE SortTiesReversed(_)
SortTiesReversed(output) ==
    IF output = <<>>
    THEN <<>>
    ELSE InsertBeforeTies(SortTiesReversed(SubSeq(output, 1, Len(output) - 1)),
                          output[Len(output)])

\* output.sort_by(|a, b| a.start.cmp(&b.start)), a stable sort
SortOutput(output) == SortByStart(output)

\* output.retain(...) from suggestion k on, mask given by its set positions:
\* Ok(the suggestions kept) or Panic when mask[start..end] is out of range.
RECURSIVE RetainFrom(_, _, _, _, _)
RetainFrom(output, k, mask, mask_len, kept) ==
    IF k > Len(output)
    THEN Ok(kept)
    ELSE LET suggestion == output[k]
         IN IF ~(suggestion.start <= suggestion.end /\ suggestion.end <= mask_len)
            THEN Panic
            ELSE IF Slice(suggestion.start, suggestion.end) \cap mask = {}
                 THEN RetainFrom(output, k + 1,
                                 mask \cup Slice(suggestion.start, suggestion.end),
                                 mask_len, Append(kept, suggestion))
                 ELSE RetainFrom(output, k + 1, mask, mask_len, kept)

\* Rules::apply after the closures have run: slots holds, per rule, the
\* outcome of its closure (NoResult for a rule that is off), order the
\* indices in completion order.  Ok(suggestions) or Panic.
RulesCollect(slots, order, text) ==
    IF \E i \in 1..Len(slots) : IsPanic(slots[i])
    THEN Panic
    ELSE RetainFrom(SortOutput(FlattenInRuleOrder(slots, order)), 1, {}, Len(text), <<>>)

\* Rules::apply(tokens, tokenizer) run on one thread, the rules in order.
RulesApply(rules, cache, tokens, text, tagger) ==
    IF tokens = <<>>
    THEN Ok(<<>>)
    ELSE RulesCollect([i \in 1..Len(rules) |->
                          IF rules[i].on
                          THEN RuleClosure(rules, cache, tokens, text, tagger, i - 1)
                          ELSE NoResult],
                      SelectSeq([i \in 1..Len(rules) |-> i], LAMBDA i : rules[i].on),
                      text)

\* ------------------------------------------------------ DisambiguationRule

\* struct DisambiguationRule (the tests left out); the filter is an Option
\* of the set of graphs that Filter::keep keeps.
DisambiguationRule(id, engine, disambiguations, filter, start, end) ==
    [id |-> id, engine |-> engine, disambiguations |-> disambiguations,
     filter |-> filter, start |-> start, end |-> end]

\* The outcome of DisambiguationRule::apply: (tokens, Option of complete
\* tokens).
DisOutcome(tokens, complete) == [tokens |-> tokens, complete |-> complete]

\* finalize(tokens.clone()): the sentence-start token, then the tokens.
Finalize(tokens) == <<Token("", <<>>, <<0, 0>>, <<0, 0>>)>> \o tokens

\* filter.keep(&graph, tokenizer)
FilterKeepsGraph(filter, graph) == graph \in filter.keeps

\* The loop over the flags that are false: each becomes can_not_match of its
\* token for a token engine, and stays false for a text engine.  Panic for a
\* false flag past the tokens.
RefineSkipMask(rule, tokens, skip_mask) ==
    IF \E i \in 1..Len(skip_mask) : ~skip_mask[i] /\ i > Len(tokens)
    THEN Panic
    ELSE Ok([i \in 1..Len(skip_mask) |->
                IF skip_mask[i]
                THEN TRUE
                ELSE IF rule.engine.kind = "Token"
                     THEN CanNotMatch(rule.engine.composition, tokens[i].text)
                     ELSE FALSE])

\* byte_spans of one graph: per group id in start..end, the set of the byte
\* spans of the group's tokens; Panic when the graph lacks a group.
GroupByteSpans(rule, graph, complete_tokens) ==
    IF \E id \in rule.start..(rule.end - 1) : ~ById(graph, id).some
    THEN Panic
    ELSE Ok(Some([n \in 1..(rule.end - rule.start) |->
                     LET group_tokens ==
                             GroupTokens(ById(graph, rule.start + n - 1).val,
                                         complete_tokens)
                     IN {complete_tokens[group_tokens[k] + 1].byte_span :
                            k \in 1..Len(group_tokens)}]))

\* The loop over the graphs from graph k on: all_byte_spans, or Panic.
RECURSIVE AllByteSpansFrom(_, _, _, _)
AllByteSpansFrom(rule, graphs, k, complete_tokens) ==
    IF k > Len(graphs)
    THEN Ok(<<>>)
    ELSE FilterMapCons(IF rule.filter.some /\ ~FilterKeepsGraph(rule.filter.val, graphs[k])
                       THEN Ok(None)
                       ELSE GroupByteSpans(rule, graphs[k], complete_tokens),
                       AllByteSpansFrom(rule, graphs, k + 1, complete_tokens))

\* all_byte_spans over the outcome of get_matches.
AllByteSpans(rule, graphs, complete_tokens) ==
    IF IsPanic(graphs)
    THEN Panic
    ELSE AllByteSpansFrom(rule, graphs.val, 1, complete_tokens)

\* A group that takes every reference left, whatever its byte_span.
TakeEveryToken(tokens, refs, group_byte_spans) == refs

\* `while let Some(i) = refs.iter().position(...) { group.push(refs.remove(i)) }`:
\* the references left, in order, whose byte_span is in the set.
TakeGroup(tokens, refs, group_byte_spans) ==
    LET Taken(i) == tokens[i].byte_span \in group_byte_spans
    IN SelectSeq(refs, Taken)

\* refs after the group has been taken out of it.
LeaveGroup(tokens, refs, group_byte_spans) ==
    LET Left_(i) == tokens[i].byte_span \notin group_byte_spans
    IN SelectSeq(refs, Left_)

\* `for group_byte_spans in byte_spans`, from set k on: the groups, each the
\* indices of its tokens.
RECURSIVE ExtractGroups(_, _, _, _)
ExtractGroups(tokens, byte_spans, k, refs) ==
    IF k > Len(byte_spans)
    THEN <<>>
    ELSE <<TakeGroup(tokens, refs, byte_spans[k])>>
         \o ExtractGroups(tokens, byte_spans, k + 1,
                          LeaveGroup(tokens, refs, byte_spans[k]))

\* `for byte_spans in all_byte_spans`, from entry k on: the tokens after the
\* operator has been applied for every entry.
RECURSIVE ApplyToMatches(_, _, _, _, _)
ApplyToMatches(rule, tokens, all_byte_spans, k, retain_last) ==
    IF k > Len(all_byte_spans)
    THEN tokens
    ELSE ApplyToMatches(rule,
                        DisambiguationApply(rule.disambiguations, tokens,
                                            ExtractGroups(tokens, all_byte_spans[k], 1,
                                                          [i \in 1..Len(tokens) |-> i]),
                                            retain_last),
                        all_byte_spans, k + 1, retain_last)

\* The end of apply with complete_tokens handed back after the operator has
\* been applied as well.
ReturnKeepingComplete(rule, tokens, complete_tokens, all_byte_spans, retain_last) ==
    IF IsPanic(all_byte_spans)
    THEN Panic
    ELSE Ok(DisOutcome(ApplyToMatches(rule, tokens, all_byte_spans.val, 1, retain_last),
                       Some(complete_tokens)))

\* DisambiguationRule::apply from `if all_byte_spans.is_empty()` on.
ReturnOrApply(rule, tokens, complete_tokens, all_byte_spans, retain_last) ==
    IF IsPanic(all_byte_spans)
    THEN Panic
    ELSE IF all_byte_spans.val = <<>>
         THEN Ok(DisOutcome(tokens, Some(complete_tokens)))
         ELSE Ok(DisOutcome(ApplyToMatches(rule, tokens, all_byte_spans.val, 1,
                                           retain_last),
                            None))

\* The flag for the sentence-start token put after the flags of the tokens.
AppendedSkipMask(skip_mask) == skip_mask \o <<FALSE>>

\* skip_mask.insert(0, false)
InsertedSkipMask(skip_mask) == <<FALSE>> \o skip_mask

\* DisambiguationRule::apply from `skip_mask.insert(0, false)` on.
MatchAndApply(rule, tokens, text, skip_mask, complete_tokens, retain_last) ==
    ReturnOrApply(rule, tokens, complete_tokens,
                  AllByteSpans(rule,
                               GetMatches(rule.engine, Len(complete_tokens), text,
                                          Some(InsertedSkipMask(skip_mask)),
                                          rule.start, rule.end),
                               complete_tokens),
                  retain_last)

\* The skip mask of the call of get_matches, if the call gets that far.
HandedSkipMask(skip_mask) ==
    IF IsPanic(skip_mask) \/ \A i \in 1..Len(skip_mask.val) : skip_mask.val[i]
    THEN None
    ELSE Some(InsertedSkipMask(skip_mask.val))

\* Some(skip_mask) as DisambiguationRule::apply hands it to
\* self.engine.get_matches; None when it returns before that.
EngineSkipMask(rule, tokens, skip_mask) ==
    IF rule.disambiguations.kind = "Nop"
    THEN None
    ELSE HandedSkipMask(RefineSkipMask(rule, tokens, skip_mask))

\* DisambiguationRule::apply from `if skip_mask.iter().all(|x| *x)` on.
ApplyRefined(rule, tokens, text, skip_mask, complete_tokens, retain_last) ==
    IF IsPanic(skip_mask)
    THEN Panic
    ELSE IF \A i \in 1..Len(skip_mask.val) : skip_mask.val[i]
         THEN Ok(DisOutcome(tokens, None))
         ELSE MatchAndApply(rule, tokens, text, skip_mask.val,
                            IF complete_tokens.some
                            THEN complete_tokens.val
                            ELSE Finalize(tokens),
                            retain_last)

\* DisambiguationRule::apply(tokens, tokenizer, skip_mask, complete_tokens):
\* Ok(outcome) or Panic.  text is the text of the sentence, retain_last is
\* tokenizer.options().retain_last.
DisambiguationRuleApply(rule, tokens, text, skip_mask, complete_tokens, retain_last) ==
    IF rule.disambiguations.kind = "Nop"
    THEN Ok(DisOutcome(tokens, None))
    ELSE ApplyRefined(rule, tokens, text, RefineSkipMask(rule, tokens, skip_mask),
                      complete_tokens, retain_last)

\* ------------------------------------------------------------------- state

VARIABLES
    c_text,     \* Rules::correct: the text, a sequence of characters
    c_suggs,    \* Rules::correct: the suggestions
    c_out,      \* Rules::correct: the outcome of the call
    c_pc,       \* Rules::correct: "call" before the call, "done" after it
    d_tokens,   \* Disambiguation::apply: the incomplete tokens before the call
    d_groups,   \* Disambiguation::apply: per group, the indices of its tokens
    d_retain,   \* Disambiguation::apply: retain_last
    d_op,       \* Disambiguation::apply: the operator (self)
    d_after,    \* Disambiguation::apply: the incomplete tokens after the call
    d_pc,       \* Disambiguation::apply: "call" before the call, "done" after it
    e_engine,   \* Engine: the engine (self)
    e_skip,     \* Engine::get_matches: skip_mask, an Option
    e_start,    \* Engine::get_matches: start
    e_end,      \* Engine::get_matches: end
    e_anchor,   \* TokenEngine::get_match: i
    e_match,    \* TokenEngine::get_match: the outcome
    e_graphs,   \* Engine::get_matches: the outcome
    e_pc,       \* Engine: "call" before the call, "done" after it
    r_rule,     \* Rule::apply: the rule (self)
    r_skip,     \* Rule::apply: skip_mask, an Option
    r_out,      \* Rule::apply: the outcome of the call
    r_pc,       \* Rule::apply: "call" before the call, "done" after it
    a_rules,    \* Rules::apply: self.rules
    a_cache,    \* Rules::apply: self.cache
    a_slots,    \* Rules::apply: per rule, the outcome of its closure so far
    a_order,    \* Rules::apply: the rule indices in the order they completed
    a_out,      \* Rules::apply: the outcome of the call
    a_pc,       \* Rules::apply: "map" while closures run, "done" after the call
    x_rule,     \* DisambiguationRule::apply: the rule (self)
    x_tokens,   \* DisambiguationRule::apply: tokens, the incomplete tokens
    x_skip,     \* DisambiguationRule::apply: skip_mask
    x_complete, \* DisambiguationRule::apply: complete_tokens, an Option
    x_mask,     \* DisambiguationRule::apply: Option of the mask handed to the engine
    x_out,      \* DisambiguationRule::apply: the outcome of the call
    x_pc,       \* DisambiguationRule::apply: "call" before, "done" after
    x_steps,    \* chain of disambiguation rules: the calls threaded so far
    s_synth,    \* Synthesizer::apply: the synthesizer (self)
    s_graph,    \* Synthesizer::apply: graph
    s_start,    \* Synthesizer::apply: start
    s_out,      \* Synthesizer::apply: the outcome of the call
    s_pc,       \* Synthesizer::apply: "call" before the call, "done" after it
    p_replacer, \* PosReplacer::apply: the replacer (self)
    p_text,     \* PosReplacer::apply: text
    p_tagger,   \* PosReplacer::apply: the tagger of the tokenizer
    p_out,      \* PosReplacer::apply: the outcome of the call
    p_pc        \* PosReplacer::apply: "call" before the call, "done" after it

correctVars == <<c_text, c_suggs, c_out, c_pc>>
disVars == <<d_tokens, d_groups, d_retain, d_op, d_after, d_pc>>
engVars == <<e_engine, e_skip, e_start, e_end, e_anchor, e_match, e_graphs, e_pc>>

ruleVars == <<r_rule, r_skip, r_out, r_pc>>
rulesVars == <<a_rules, a_cache, a_slots, a_order, a_out, a_pc>>
disRuleVars == <<x_rule, x_tokens, x_skip, x_complete, x_mask, x_out, x_pc, x_steps>>

synthVars == <<s_synth, s_graph, s_start, s_out, s_pc>>
posVars == <<p_replacer, p_text, p_tagger, p_out, p_pc>>

vars == <<correctVars, disVars, engVars, ruleVars, rulesVars, disRuleVars, synthVars, posVars>>

\* ------------------------------------------- specification: Rules::correct

\* The characters of the texts: pairwise different, so that a character
\* kept in the wrong place shows.
TextChars == <<"a", "b", "c", "d", "e">>

\* Replacement strings of length 0, 1 and 2.
Replacements == {<<>>, <<"x">>, <<"y", "z">>}

CorrectTexts == {SubSeq(TextChars, 1, n) : n \in 0..MaxTextLen}

CorrectSuggestions(text) ==
    {Suggestion("r", <<"m">>, s, e, <<r>>) :
        s \in 0..Len(text), e \in 0..Len(text), r \in Replacements}

IdleCorrect ==
    /\ c_text = <<>>
    /\ c_suggs = <<>>
    /\ c_out = NoResult
    /\ c_pc = "idle"

IdleDis ==
    /\ d_tokens = <<>>
    /\ d_groups = <<>>
    /\ d_retain = FALSE
    /\ d_op = DisNop
    /\ d_after = <<>>
    /\ d_pc = "idle"

IdleEng ==
    /\ e_engine = TokenEngine(Composition(<<>>, {}), <<>>)
    /\ e_skip = None
    /\ e_start = 0
    /\ e_end = 0
    /\ e_anchor = 0
    /\ e_match = NoResult
    /\ e_graphs = NoResult
    /\ e_pc = "idle"

IdleRule ==
    /\ r_rule = <<>>
    /\ r_skip = None
    /\ r_out = NoResult
    /\ r_pc = "idle"

IdleRules ==
    /\ a_rules = <<>>
    /\ a_cache = <<>>
    /\ a_slots = <<>>
    /\ a_order = <<>>
    /\ a_out = NoResult
    /\ a_pc = "idle"

IdleDisRule ==
    /\ x_rule = <<>>
    /\ x_tokens = <<>>
    /\ x_skip = <<>>
    /\ x_complete = None
    /\ x_mask = None
    /\ x_out = NoResult
    /\ x_pc = "idle"
    /\ x_steps = 0

IdleSynth ==
    /\ s_synth = <<>>
    /\ s_graph = <<>>
    /\ s_start = 0
    /\ s_out = NoResult
    /\ s_pc = "idle"

IdlePos ==
    /\ p_replacer = <<>>
    /\ p_text = <<>>
    /\ p_tagger = <<>>
    /\ p_out = NoResult
    /\ p_pc = "idle"

\* No call of Synthesizer::apply or PosReplacer::apply on its own.
IdleParts == IdleSynth /\ IdlePos

InitCorrect ==
    /\ IdleDis
    /\ IdleEng
    /\ IdleRule
    /\ IdleRules
    /\ IdleDisRule
    /\ IdleParts
    /\ c_text \in CorrectTexts
    /\ c_suggs \in SeqsOf(CorrectSuggestions(c_text), 0, MaxSuggs)
    /\ c_out = NoResult
    /\ c_pc = "call"

CallCorrect ==
    /\ c_pc = "call"
    /\ c_out' = Correct(c_text, c_suggs)
    /\ c_pc' = "done"
    /\ UNCHANGED <<c_text, c_suggs>>
    /\ UNCHANGED <<disVars, engVars, ruleVars, rulesVars, disRuleVars, synthVars, posVars>>

NextCorrect == CallCorrect

SpecCorrect == InitCorrect /\ [][NextCorrect]_vars

\* ------------------------------------- specification: Disambiguation::apply

\* The readings the tagger gives the words of the sample sentence.
DisWordDatas ==
    {WordData("dog", "NN.sg"), WordData("dog", "NN.pl"), WordData("run", "VB.sg")}

DisTagLists == SeqsOf(DisWordDatas, 0, MaxTags)

\* The sample sentence "dogs runs": two tokens, any readings.
DisTokens ==
    {<<Token("dogs", t1, <<0, 4>>, <<0, 4>>), Token("runs", t2, <<5, 9>>, <<5, 9>>)>> :
        t1 \in DisTagLists, t2 \in DisTagLists}

\* Two groups over the two tokens: each token is in one group or in none.
DisGroups ==
    {<<<<1>>, <<2>>>>, <<<<2>>, <<1>>>>, <<<<1, 2>>, <<>>>>, <<<<>>, <<1, 2>>>>,
     <<<<1>>, <<>>>>, <<<<>>, <<2>>>>, <<<<>>, <<>>>>}

RemoveParams ==
    {Left(WordData("", "NN.sg")), Left(WordData("dog", "NN.pl")),
     Right(POSFilterString("VB.sg")), Right(POSFilterRegex({"NN.sg", "NN.pl"}))}

FilterParams ==
    {None, Some(Left(WordData("", "VB.sg"))), Some(Left(WordData("", "NN.sg"))),
     Some(Right(POSFilterString("NN.pl")))}

AddParams == {WordData("", "NN.sg"), WordData("run", "VB.sg"), WordData("", "")}

\* The filter lists of Unify: word class and number, or number alone.
FilterNN == POSFilterRegex({"NN.sg", "NN.pl"})
FilterVB == POSFilterRegex({"VB.sg"})
FilterSg == POSFilterRegex({"NN.sg", "VB.sg"})
FilterPl == POSFilterRegex({"NN.pl"})
UnifyFilters == {<<<<FilterNN, FilterVB>>, <<FilterSg, FilterPl>>>>, <<<<FilterSg, FilterPl>>>>}
UnifyDisambigs == {<<None, None>>, <<Some(POSFilterString("NN.sg")), None>>}
UnifyMasks == [1..2 -> BOOLEAN]

InitDis ==
    /\ IdleCorrect
    /\ IdleEng
    /\ IdleRule
    /\ IdleRules
    /\ IdleDisRule
    /\ IdleParts
    /\ d_tokens \in DisTokens
    /\ d_groups \in DisGroups
    /\ d_retain = FALSE
    /\ d_op = DisNop
    /\ d_after = d_tokens
    /\ d_pc = "call"

\* self.apply(groups, retain_last) with self = op.
CallDis(op, retain_last) ==
    /\ d_op' = op
    /\ d_retain' = retain_last
    /\ d_after' = DisambiguationApply(op, d_tokens, d_groups, retain_last)
    /\ d_pc' = "done"
    /\ UNCHANGED <<d_tokens, d_groups>>
    /\ UNCHANGED <<correctVars, engVars, ruleVars, rulesVars, disRuleVars, synthVars, posVars>>

ApplyRemove ==
    /\ d_pc = "call"
    /\ \E params \in [1..2 -> RemoveParams] : CallDis(DisRemove(params), FALSE)

ApplyFilter ==
    /\ d_pc = "call"
    /\ \E params \in [1..2 -> FilterParams], retain_last \in BOOLEAN :
           CallDis(DisFilter(params), retain_last)

ApplyAdd ==
    /\ d_pc = "call"
    /\ \E params \in [1..2 -> AddParams] : CallDis(DisAdd(params), FALSE)

ApplyReplace ==
    /\ d_pc = "call"
    /\ \E params \in [1..2 -> AddParams] : CallDis(DisReplace(params), FALSE)

ApplyUnify ==
    /\ d_pc = "call"
    /\ \E filters \in UnifyFilters, disambigs \in UnifyDisambigs, mask \in UnifyMasks :
           CallDis(DisUnify(filters, disambigs, mask), FALSE)

ApplyNop ==
    /\ d_pc = "call"
    /\ CallDis(DisNop, FALSE)

NextDis ==
    \/ ApplyRemove
    \/ ApplyFilter
    \/ ApplyAdd
    \/ ApplyReplace
    \/ ApplyUnify
    \/ ApplyNop

SpecDis == InitDis /\ [][NextDis]_vars

\* ------------------------------------------------- specification: Engine

\* The sample sentence "äb, cd" as the tokenizer and finalize give it: the
\* sentence-start token, then "äb", "," and "cd".
EngText == <<"ä", "b", ",", " ", "c", "d">>

EngTokens ==
    <<Token(<<>>, <<>>, <<0, 0>>, <<0, 0>>),
      Token(<<"ä", "b">>, <<>>, <<0, 2>>, <<0, 3>>),
      Token(<<",">>, <<>>, <<2, 3>>, <<3, 4>>),
      Token(<<"c", "d">>, <<>>, <<4, 6>>, <<5, 7>>)>>

\* The group over the tokens a..b-1 (0-based) of `tokens`; an empty group
\* (a = b) lies at the end of the token before it.
GroupOver(tokens, a, b) ==
    IF a < b
    THEN Group(<<tokens[a + 1].char_span[1], tokens[b].char_span[2]>>)
    ELSE Group(<<tokens[a].char_span[2], tokens[a].char_span[2]>>)

\* The graphs a composition of two parts can yield at anchor i: the first
\* group takes 1..MaxGroupTokens tokens from token i on, the second the
\* 0..MaxGroupTokens tokens that follow.
TokenGraphs(tokens, i) ==
    {MatchGraph(<<GroupOver(tokens, i, i + k1), GroupOver(tokens, i + k1, i + k1 + k2)>>,
                [id \in 0..1 |-> id]) :
        <<k1, k2>> \in {kk \in (1..MaxGroupTokens) \X (0..MaxGroupTokens) :
                           i + kk[1] + kk[2] <= Len(tokens)}}

\* The compositions of two parts over `tokens`.
TokenCompositions(tokens) ==
    {Composition(m, {}) :
        m \in {mm \in [1..Len(tokens) -> {None} \cup
                          {Some(g) : g \in UNION {TokenGraphs(tokens, i) :
                                                     i \in 0..(Len(tokens) - 1)}}] :
                  \A n \in 1..Len(tokens) :
                      mm[n].some => mm[n].val \in TokenGraphs(tokens, n - 1)}}

\* An antipattern of one part that matches the tokens a..b-1 at anchor a and
\* nothing elsewhere.
AntipatternOver(tokens, a, b) ==
    Composition([n \in 1..Len(tokens) |->
                    IF n = a + 1
                    THEN Some(MatchGraph(<<GroupOver(tokens, a, b)>>, [id \in {0} |-> 0]))
                    ELSE None], {})

\* The sample antipatterns: ",", "äb,", "cd" and the sentence start.
EngAntipatterns ==
    {AntipatternOver(EngTokens, 2, 3), AntipatternOver(EngTokens, 1, 3),
     AntipatternOver(EngTokens, 3, 4), AntipatternOver(EngTokens, 0, 1)}

IdleOthersOfEng ==
    /\ IdleCorrect
    /\ IdleDis
    /\ IdleRule
    /\ IdleRules
    /\ IdleDisRule
    /\ IdleParts

InitGetMatch ==
    /\ IdleOthersOfEng
    /\ \E c \in TokenCompositions(EngTokens) :
       \E a \in SeqsOf(EngAntipatterns, 0, 2) :
           e_engine = TokenEngine(c, a)
    /\ e_skip = None
    /\ e_start = 0
    /\ e_end = 1
    /\ e_anchor = 0
    /\ e_match = NoResult
    /\ e_graphs = NoResult
    /\ e_pc = "call"

\* self.get_match(tokens, i)
CallGetMatch ==
    /\ e_pc = "call"
    /\ \E i \in 0..(Len(EngTokens) - 1) :
           /\ e_anchor' = i
           /\ e_match' = Ok(GetMatch(e_engine, Len(EngTokens), i))
    /\ e_pc' = "done"
    /\ UNCHANGED <<e_engine, e_skip, e_start, e_end, e_graphs>>
    /\ UNCHANGED <<correctVars, disVars, ruleVars, rulesVars, disRuleVars, synthVars, posVars>>

NextGetMatch == CallGetMatch

SpecGetMatch == InitGetMatch /\ [][NextGetMatch]_vars

\* The skip masks of a call: none, or one flag per token.
EngSkipMasks == {None} \cup {Some(m) : m \in [1..Len(EngTokens) -> BOOLEAN]}

InitGetMatches ==
    /\ IdleOthersOfEng
    /\ \E c \in TokenCompositions(EngTokens) :
       \E a \in {<<>>, <<AntipatternOver(EngTokens, 2, 3)>>} :
           e_engine = TokenEngine(c, a)
    /\ e_skip \in EngSkipMasks
    /\ \E se \in {<<0, 1>>, <<1, 2>>, <<0, 2>>} : e_start = se[1] /\ e_end = se[2]
    /\ e_anchor = 0
    /\ e_match = NoResult
    /\ e_graphs = NoResult
    /\ e_pc = "call"

\* self.get_matches(tokens, skip_mask, start, end)
CallGetMatches ==
    /\ e_pc = "call"
    /\ e_graphs' = GetMatches(e_engine, Len(EngTokens), EngText, e_skip, e_start, e_end)
    /\ e_pc' = "done"
    /\ UNCHANGED <<e_engine, e_skip, e_start, e_end, e_anchor, e_match>>
    /\ UNCHANGED <<correctVars, disVars, ruleVars, rulesVars, disRuleVars, synthVars, posVars>>

NextGetMatches == CallGetMatches

SpecGetMatches == InitGetMatches /\ [][NextGetMatches]_vars

\* ---------------------------------------------- specification: Rule::apply

\* The most matches a sample regex has on the sentence.
MaxMatches == 2
\* The most suggesters of a sample rule.
MaxSuggesters == 2

\* The sample tagger: "cd" is a noun whose family holds "cd" and "cds".
RuleTagger ==
    Tagger([w \in {<<"c", "d">>, <<"c", "d", "s">>} |->
               IF w = <<"c", "d">>
               THEN <<WordData(<<"c", "d">>, "NN")>>
               ELSE <<WordData(<<"c", "d">>, "NNS")>>],
           [l \in {<<"c", "d">>} |-> <<<<"c", "d">>, <<"c", "d", "s">>>>])

\* The sample suggesters: "," (a no-space character first), "x ," (a space
\* before a no-space character), the text of group 1 in upper case, and the
\* plural of the text of group 0.
RuleSynthesizers ==
    <<Synthesizer(FALSE, <<TextPart(<<",">>)>>),
      Synthesizer(TRUE, <<TextPart(<<"x", " ", ",">>)>>),
      Synthesizer(FALSE, <<Match(1, "AllUpper", None, None)>>),
      Synthesizer(FALSE, <<Match(0, "Nop", Some(PosReplacer({"NNS"})), None)>>)>>

\* The suggesters of a sample rule: MaxSuggesters at most of the sample
\* suggesters, in their order.
RuleSuggesters ==
    {LET Picked(n) == n \in S
         idx == SelectSeq([n \in 1..Len(RuleSynthesizers) |-> n], Picked)
     IN [n \in 1..Len(idx) |-> RuleSynthesizers[idx[n]]] :
        S \in {T \in SUBSET (1..Len(RuleSynthesizers)) : Cardinality(T) <= MaxSuggesters}}

RuleMessage == Synthesizer(FALSE, <<TextPart(<<"m">>)>>)

\* The byte spans the captures of the sample regexes take on "äb, cd".
RuleByteSpans == {<<0, 3>>, <<3, 4>>, <<3, 5>>, <<5, 7>>, <<0, 4>>}

SpanWithin(inner, outer) == outer[1] <= inner[1] /\ inner[2] <= outer[2]

\* One match of a regex with two capture groups: group 0 is the whole
\* match, groups 1 and 2 are absent or lie within it.
RuleRegexMatches ==
    {<<Some(whole), g1, g2>> :
        <<whole, g1, g2>> \in
            {w \in RuleByteSpans \X ({None} \cup {Some(x) : x \in RuleByteSpans})
                                 \X ({None} \cup {Some(x) : x \in RuleByteSpans}) :
                /\ w[2].some => SpanWithin(w[2].val, w[1])
                /\ w[3].some => SpanWithin(w[3].val, w[1])}}

\* A later match of the regex: all its groups capture the whole match.
RuleLaterMatches == {<<Some(w), Some(w), Some(w)>> : w \in RuleByteSpans}

\* The runs of n later matches at most, from byte `from` on, in text order,
\* none overlapping the one before.
RECURSIVE CapturesAfter(_, _)
CapturesAfter(from, n) ==
    IF n = 0
    THEN {<<>>}
    ELSE {<<>>} \cup
         UNION {{<<m>> \o rest : rest \in CapturesAfter(m[1].val[2], n - 1)} :
                   m \in {l \in RuleLaterMatches : l[1].val[1] >= from}}

\* captures_iter: MaxMatches matches at most, in text order, none
\* overlapping the one before; any sample match first.
RuleCaptures ==
    {<<>>} \cup
    UNION {{<<m>> \o rest : rest \in CapturesAfter(m[1].val[2], MaxMatches - 1)} :
              m \in RuleRegexMatches}

RuleTextEngines == {TextEngine(c, [id \in 0..2 |-> id]) : c \in RuleCaptures}

\* What a composition of two parts can yield at anchor n - 1: nothing, or a
\* graph.
OptionalGraphs(tokens, n) == {None} \cup {Some(g) : g \in TokenGraphs(tokens, n - 1)}

\* The compositions of two parts over `tokens` that match at two anchors at
\* most.
SparseCompositions(tokens) ==
    UNION {{Composition([n \in 1..Len(tokens) |->
                            IF n = ab[1] THEN ga ELSE IF n = ab[2] THEN gb ELSE None], {}) :
               ga \in OptionalGraphs(tokens, ab[1]), gb \in OptionalGraphs(tokens, ab[2])} :
              ab \in {xy \in (1..Len(tokens)) \X (1..Len(tokens)) : xy[1] < xy[2]}}

\* The token engines whose composition matches at two anchors at most.
RuleTokenEngines == {TokenEngine(c, <<>>) : c \in SparseCompositions(EngTokens)}

RuleSkipMasks ==
    {None, Some([n \in 1..Len(EngTokens) |-> n = 2])}

IdleOthersOfRule ==
    /\ IdleCorrect
    /\ IdleDis
    /\ IdleEng
    /\ IdleRules
    /\ IdleDisRule
    /\ IdleParts

InitRule ==
    /\ IdleOthersOfRule
    /\ \E engine \in RuleTextEngines \cup RuleTokenEngines :
       \E suggesters \in RuleSuggesters :
       \E se \in {<<0, 1>>, <<1, 2>>, <<0, 2>>, <<1, 3>>} :
           r_rule = Rule("R", engine, suggesters, RuleMessage, se[1], se[2], TRUE)
    /\ r_skip \in IF r_rule.engine.kind = "Token" THEN RuleSkipMasks ELSE {None}
    /\ r_out = NoResult
    /\ r_pc = "call"

\* rule.apply(tokens, skip_mask, tokenizer)
CallRuleApply ==
    /\ r_pc = "call"
    /\ r_out' = RuleApply(r_rule, EngTokens, EngText, r_skip, RuleTagger)
    /\ r_pc' = "done"
    /\ UNCHANGED <<r_rule, r_skip>>
    /\ UNCHANGED <<correctVars, disVars, engVars, rulesVars, disRuleVars, synthVars, posVars>>

NextRule == CallRuleApply

SpecRule == InitRule /\ [][NextRule]_vars

\* --------------------------------------------- specification: Rules::apply

\* The number of rules of the sample rule sets.
NumRules == 3

\* A rule with a text engine of one capture group, group 0, whose regex
\* matches at the given byte spans, and one suggester of a fixed text.
SampleTextRule(spans, replacement) ==
    Rule("", TextEngine([n \in 1..Len(spans) |-> <<Some(spans[n])>>], [id \in {0} |-> 0]),
         <<Synthesizer(FALSE, <<TextPart(replacement)>>)>>, RuleMessage, 0, 1, TRUE)

\* "cd" -> "x": the range [4, 6)
CdRule == SampleTextRule(<<<<5, 7>>>>, <<"x">>)
\* ", cd" -> "z": the range [2, 6)
CommaCdRule == SampleTextRule(<<<<3, 7>>>>, <<"z">>)
\* the empty match before "cd": the range [4, 4)
EmptyRule == SampleTextRule(<<<<5, 5>>>>, <<"w">>)
\* "äb" and "cd" -> "y": the ranges [0, 2) and [4, 6)
TwoRule == SampleTextRule(<<<<0, 3>>, <<5, 7>>>>, <<"y">>)
\* A regex whose second capture group is absent: start 2, end 0.
BadRule ==
    Rule("", TextEngine(<<<<Some(<<0, 4>>), Some(<<3, 4>>), None>>>>, [id \in 0..2 |-> id]),
         <<Synthesizer(FALSE, <<TextPart(<<"x">>)>>)>>, RuleMessage, 1, 3, TRUE)
\* A token rule that matches "," and suggests ";": the range [2, 3).  Its
\* composition can not match at "äb" or "cd".
CommaRule ==
    Rule("", TokenEngine(Composition([n \in 1..Len(EngTokens) |->
                                         IF n = 3
                                         THEN Some(MatchGraph(<<GroupOver(EngTokens, 2, 3)>>,
                                                              [id \in {0} |-> 0]))
                                         ELSE None],
                                     {<<"ä", "b">>, <<"c", "d">>}), <<>>),
         <<Synthesizer(FALSE, <<TextPart(<<";">>)>>)>>, RuleMessage, 0, 1, TRUE)

SampleRules == {CdRule, CommaCdRule, EmptyRule, TwoRule, BadRule, CommaRule}

\* The words the cache is populated with; the cache is populated, or, for a
\* rule set with a token engine, left empty.
CommonWords == {<<"ä", "b">>, <<",">>}

\* The rule sets: NumRules sample rules, the id of a rule its place in the
\* vector, all rules on or the first rule off.
RuleSets ==
    {[i \in 1..NumRules |-> [picked[i] EXCEPT !.id = i, !.on = (i > 1 \/ first_on)]] :
        picked \in [1..NumRules -> SampleRules], first_on \in BOOLEAN}

IdleOthersOfRules ==
    /\ IdleCorrect
    /\ IdleDis
    /\ IdleEng
    /\ IdleRule
    /\ IdleDisRule
    /\ IdleParts

InitRules ==
    /\ IdleOthersOfRules
    /\ a_rules \in RuleSets
    /\ a_cache \in {RulesPopulateCache(a_rules, EmptyCache, CommonWords)}
                  \cup {cache \in {EmptyCache} :
                           \E i \in 1..NumRules : a_rules[i].engine.kind = "Token"}
    /\ a_slots = [i \in 1..NumRules |-> NoResult]
    /\ a_order = <<>>
    /\ a_out = NoResult
    /\ a_pc = "map"

\* One closure of the parallel map runs to its end: that of any rule that is
\* on and has not run yet.
RunClosure ==
    /\ a_pc = "map"
    /\ EngTokens # <<>>
    /\ \E i \in 1..Len(a_rules) :
           /\ a_rules[i].on
           /\ a_slots[i] = NoResult
           /\ a_slots' = [a_slots EXCEPT ![i] =
                             RuleClosure(a_rules, a_cache, EngTokens, EngText,
                                         RuleTagger, i - 1)]
           /\ a_order' = Append(a_order, i)
    /\ UNCHANGED <<a_rules, a_cache, a_out, a_pc>>
    /\ UNCHANGED <<correctVars, disVars, engVars, ruleVars, disRuleVars, synthVars, posVars>>

\* All closures have run: collect, sort, retain and return.
Collect ==
    /\ a_pc = "map"
    /\ \A i \in 1..Len(a_rules) : a_rules[i].on => a_slots[i] # NoResult
    /\ a_out' = RulesCollect(a_slots, a_order, EngText)
    /\ a_pc' = "done"
    /\ UNCHANGED <<a_rules, a_cache, a_slots, a_order>>
    /\ UNCHANGED <<correctVars, disVars, engVars, ruleVars, disRuleVars, synthVars, posVars>>

NextRules == RunClosure \/ Collect

SpecRules == InitRules /\ [][NextRules]_vars

\* ------------------------------ specification: Rules::populate_cache, apply

\* The most calls of populate_cache that name the same word.
MaxPopulate == 2

\* A token rule that matches "cd" and suggests "x": the range [4, 6).  Its
\* composition can not match at "äb" or ",".
WordRule ==
    Rule("", TokenEngine(Composition([n \in 1..Len(EngTokens) |->
                                         IF n = 4
                                         THEN Some(MatchGraph(<<GroupOver(EngTokens, 3, 4)>>,
                                                              [id \in {0} |-> 0]))
                                         ELSE None],
                                     {<<"ä", "b">>, <<",">>}), <<>>),
         <<Synthesizer(FALSE, <<TextPart(<<"x">>)>>)>>, RuleMessage, 0, 1, TRUE)

\* The rule vectors: NumRules rules, each a token rule or a text rule, on
\* or off, the id of a rule its place in the vector.
CacheRuleSets ==
    {[i \in 1..NumRules |-> [picked[i] EXCEPT !.id = i, !.on = on[i]]] :
        picked \in [1..NumRules -> {CommaRule, WordRule, TwoRule}],
        on \in [1..NumRules -> BOOLEAN]}

\* The words populate_cache is called with.
CacheWords == {<<",">>, <<"c", "d">>}

InitCache ==
    /\ IdleOthersOfRules
    /\ a_rules \in CacheRuleSets
    /\ a_cache = EmptyCache
    /\ a_slots = <<>>
    /\ a_order = <<>>
    /\ a_out = NoResult
    /\ a_pc = "populate"

\* rules.populate_cache(common_words)
PopulateCache ==
    /\ a_pc = "populate"
    /\ \E common_words \in (SUBSET CacheWords) \ {{}} :
           /\ \A w \in common_words :
                  w \in DOMAIN a_cache => Len(a_cache[w]) < MaxPopulate * Len(a_rules)
           /\ a_cache' = RulesPopulateCache(a_rules, a_cache, common_words)
    /\ UNCHANGED <<a_rules, a_slots, a_order, a_out, a_pc>>
    /\ UNCHANGED <<correctVars, disVars, engVars, ruleVars, disRuleVars, synthVars, posVars>>

\* rules.apply(tokens, tokenizer)
CallRulesApply ==
    /\ a_pc = "populate"
    /\ a_out' = RulesApply(a_rules, a_cache, EngTokens, EngText, RuleTagger)
    /\ a_pc' = "done"
    /\ UNCHANGED <<a_rules, a_cache, a_slots, a_order>>
    /\ UNCHANGED <<correctVars, disVars, engVars, ruleVars, disRuleVars, synthVars, posVars>>

NextCache == PopulateCache \/ CallRulesApply

SpecCache == InitCache /\ [][NextCache]_vars

\* -------------------------------- specification: DisambiguationRule::apply

\* The incomplete tokens of "äb, cd": "äb" is a noun or a verb, "cd" a noun.
DisRuleTokens ==
    <<Token("äb", <<WordData("äb", "NN"), WordData("äb", "VB")>>, <<0, 2>>, <<0, 3>>),
      Token(",", <<WordData(",", "PCT")>>, <<2, 3>>, <<3, 4>>),
      Token("cd", <<WordData("cd", "NN")>>, <<4, 6>>, <<5, 7>>)>>

\* The sample operators, one parameter per group.
DisRuleOperators ==
    {DisNop,
     DisRemove(<<Left(WordData("", "VB")), Left(WordData("", "VB"))>>),
     DisFilter(<<Some(Left(WordData("", "NN"))), None>>),
     DisReplace(<<WordData("", "NN"), WordData("", "NN")>>),
     DisAdd(<<WordData("", "NN"), WordData("", "")>>)}

\* The sample engines: token engines whose composition matches at one anchor
\* at most, and can match at every word of the sentence, at every word but
\* "cd", or at none, and the text engines of two sample rules.
DisRuleEngines ==
    {TokenEngine(Composition(c.matches, can_not), <<>>) :
        c \in {cc \in SparseCompositions(EngTokens) :
                  Cardinality({n \in 1..Len(EngTokens) : cc.matches[n].some}) <= 1},
        can_not \in {{}, {"cd"}, {"äb", ",", "cd"}}}
    \cup {CdRule.engine, BadRule.engine}

\* The sample filters: none, one that keeps no graph, and one that keeps the
\* graphs anchored at "äb".
DisRuleFilters ==
    {None, Some([keeps |-> {}]), Some([keeps |-> TokenGraphs(EngTokens, 1)])}

DisRuleSkipMasks == {<<FALSE, FALSE, FALSE>>, <<TRUE, TRUE, TRUE>>, <<FALSE, TRUE, FALSE>>}

IdleOthersOfDisRule ==
    /\ IdleCorrect
    /\ IdleDis
    /\ IdleEng
    /\ IdleRule
    /\ IdleRules
    /\ IdleParts

InitDisRule ==
    /\ IdleOthersOfDisRule
    /\ \E engine \in DisRuleEngines :
       \E op \in DisRuleOperators :
       \E filter \in DisRuleFilters :
       \E se \in {<<0, 1>>, <<1, 2>>, <<0, 2>>} :
           x_rule = DisambiguationRule("D", engine, op, filter, se[1], se[2])
    /\ x_tokens = DisRuleTokens
    /\ x_skip \in DisRuleSkipMasks
    /\ x_complete \in {None, Some(Finalize(DisRuleTokens))}
    /\ x_mask = None
    /\ x_out = NoResult
    /\ x_pc = "call"
    /\ x_steps = 0

\* rule.apply(tokens, tokenizer, skip_mask, complete_tokens)
CallDisambiguationRuleApply ==
    /\ x_pc = "call"
    /\ \E retain_last \in BOOLEAN :
           x_out' = DisambiguationRuleApply(x_rule, x_tokens, EngText, x_skip,
                                            x_complete, retain_last)
    /\ x_mask' = EngineSkipMask(x_rule, x_tokens, x_skip)
    /\ x_pc' = "done"
    /\ UNCHANGED <<x_rule, x_tokens, x_skip, x_complete, x_steps>>
    /\ UNCHANGED <<correctVars, disVars, engVars, ruleVars, rulesVars, synthVars, posVars>>

NextDisRule == CallDisambiguationRuleApply

SpecDisRule == InitDisRule /\ [][NextDisRule]_vars

\* ------------------- specification: a chain of DisambiguationRule::apply

\* The most calls threaded after the first one.
MaxChain == 2

\* The token engine whose composition matches at the complete token `anchor`
\* alone, with that token as group 0 and an empty group 1.
ChainTokenEngine(anchor, can_not) ==
    TokenEngine(Composition([n \in 1..Len(EngTokens) |->
                                IF n = anchor
                                THEN Some(MatchGraph(<<GroupOver(EngTokens, n - 1, n),
                                                       GroupOver(EngTokens, n, n)>>,
                                                     [id \in 0..1 |-> id]))
                                ELSE None],
                            can_not),
                <<>>)

\* The sample engines of a chain: token engines that match at "äb", at "cd"
\* or nowhere, one that can match at no word, and a text engine.
ChainEngines ==
    {ChainTokenEngine(2, {}), ChainTokenEngine(4, {}), ChainTokenEngine(0, {}),
     ChainTokenEngine(2, {"äb", ",", "cd"}), CdRule.engine}

\* The sample rules of a chain: every sample operator on group 0, without a
\* filter or with the filter that keeps no graph.
ChainRules ==
    {DisambiguationRule("D", engine, op, filter, 0, 1) :
        engine \in ChainEngines,
        op \in DisRuleOperators,
        filter \in {None, Some([keeps |-> {}])}}

ChainSkipMasks == {<<FALSE, FALSE, FALSE>>, <<FALSE, TRUE, FALSE>>}

\* The first call of a chain: the caller has no complete tokens yet, or the
\* finalization of its tokens.
InitChain ==
    /\ IdleOthersOfDisRule
    /\ x_rule \in ChainRules
    /\ x_tokens = DisRuleTokens
    /\ x_skip \in ChainSkipMasks
    /\ x_complete \in {None, Some(Finalize(DisRuleTokens))}
    /\ x_mask = None
    /\ x_out = NoResult
    /\ x_pc = "call"
    /\ x_steps = 0

\* The caller threads both results of the call into the call of the next
\* rule: (tokens, complete_tokens) = rule.apply(tokens, .., complete_tokens).
ThreadResults ==
    /\ x_pc = "done"
    /\ IsOk(x_out)
    /\ x_steps < MaxChain
    /\ x_tokens' = x_out.val.tokens
    /\ x_complete' = x_out.val.complete
    /\ x_rule' \in ChainRules
    /\ x_skip' \in ChainSkipMasks
    /\ x_mask' = None
    /\ x_out' = NoResult
    /\ x_pc' = "call"
    /\ x_steps' = x_steps + 1
    /\ UNCHANGED <<correctVars, disVars, engVars, ruleVars, rulesVars, synthVars, posVars>>

NextChain ==
    \/ CallDisambiguationRuleApply
    \/ ThreadResults

SpecChain == InitChain /\ [][NextChain]_vars

\* ------------------------------------- specification: Synthesizer::apply

\* The sample sentence with a capitalised word that is not its first.
SynthText == <<"ä", "b", ",", " ", "C", "d">>

SynthTokens ==
    <<Token(<<>>, <<>>, <<0, 0>>, <<0, 0>>),
      Token(<<"ä", "b">>, <<>>, <<0, 2>>, <<0, 3>>),
      Token(<<",">>, <<>>, <<2, 3>>, <<3, 4>>),
      Token(<<"C", "d">>, <<>>, <<4, 6>>, <<5, 7>>)>>

\* The sample tagger: "Cd" is a noun of the family of "cd" and "cds".
SynthTagger ==
    Tagger([w \in {<<"C", "d">>, <<"c", "d">>, <<"c", "d", "s">>} |->
               IF w = <<"c", "d", "s">>
               THEN <<WordData(<<"c", "d">>, "NNS")>>
               ELSE <<WordData(<<"c", "d">>, "NN")>>],
           [l \in {<<"c", "d">>} |-> <<<<"c", "d">>, <<"c", "d", "s">>>>])

\* The sample parts: texts, with and without spare whitespace, the text of
\* a group as it is, converted, replaced by its plural, and no part.
SynthParts ==
    {<<>>,
     <<TextPart(<<"x", " ", "y">>)>>,
     <<TextPart(<<" ", "x", " ", " ", "y", " ">>)>>,
     <<TextPart(<<",">>)>>,
     <<Match(0, "Nop", None, None)>>,
     <<Match(0, "AllUpper", None, None)>>,
     <<Match(1, "StartLower", None, None)>>,
     <<Match(1, "AllLower", None, None), TextPart(<<" ", "x">>)>>,
     <<TextPart(<<"x", " ">>), Match(0, "AllUpper", None, None)>>,
     <<Match(1, "Nop", Some(PosReplacer({"NNS"})), None)>>,
     <<Match(0, "Nop", None, Some(<<"b", <<"x", "y">>>>))>>}

\* The sample graphs: those of a token composition at any anchor, and
\* those of a regex whose first group, or both groups, captured nothing.
SynthGraphs ==
    UNION {TokenGraphs(SynthTokens, i) : i \in 0..(Len(SynthTokens) - 1)}
    \cup {MatchGraph(<<Group(<<0, 0>>), g>>, [id \in 0..1 |-> id]) :
              g \in {Group(<<0, 0>>), Group(<<0, 2>>), Group(<<4, 6>>), Group(<<2, 6>>)}}

InitSynth ==
    /\ IdleCorrect
    /\ IdleDis
    /\ IdleEng
    /\ IdleRule
    /\ IdleRules
    /\ IdleDisRule
    /\ IdlePos
    /\ \E titlecase \in BOOLEAN, parts \in SynthParts :
           s_synth = Synthesizer(titlecase, parts)
    /\ s_graph \in SynthGraphs
    /\ s_start \in 0..2
    /\ s_out = NoResult
    /\ s_pc = "call"

\* synthesizer.apply(graph, tokenizer, start, end)
CallSynthesizerApply ==
    /\ s_pc = "call"
    /\ s_out' = SynthesizerApply(s_synth, s_graph, SynthTokens, SynthText,
                                 SynthTagger, s_start)
    /\ s_pc' = "done"
    /\ UNCHANGED <<s_synth, s_graph, s_start>>
    /\ UNCHANGED <<correctVars, disVars, engVars, ruleVars, rulesVars, disRuleVars, posVars>>

NextSynth == CallSynthesizerApply

SpecSynth == InitSynth /\ [][NextSynth]_vars

\* ------------------------------------- specification: PosReplacer::apply

\* The readings of the text "saw": a form of the verb "see", the noun "saw".
PosReadings == {WordData("see", "VB"), WordData("saw", "NN")}

\* The readings a tagger may give the other words of the two families.
PosMemberTags ==
    {<<WordData("x", "VB")>>, <<WordData("x", "NN")>>,
     <<WordData("x", "NN"), WordData("x", "VB")>>}

\* The sample taggers: "saw" has MaxTags readings at most; the family of
\* "see" is see, sees, saw and that of "saw" is saw, saws.
PosTaggers ==
    {Tagger([w \in {"saw", "see", "sees", "saws"} |->
                CASE w = "saw" -> readings
                  [] w = "see" -> see
                  [] w = "sees" -> sees
                  [] w = "saws" -> saws],
            [l \in {"see", "saw"} |->
                IF l = "see" THEN <<"see", "sees", "saw">> ELSE <<"saw", "saws">>]) :
        readings \in SeqsOf(PosReadings, 0, MaxTags),
        see \in PosMemberTags, sees \in PosMemberTags, saws \in PosMemberTags}

InitPos ==
    /\ IdleCorrect
    /\ IdleDis
    /\ IdleEng
    /\ IdleRule
    /\ IdleRules
    /\ IdleDisRule
    /\ IdleSynth
    /\ \E matches \in SUBSET {"VB", "NN"} : p_replacer = PosReplacer(matches)
    /\ p_text \in {"saw", "sees", "axe"}
    /\ p_tagger \in PosTaggers
    /\ p_out = NoResult
    /\ p_pc = "call"

\* replacer.apply(text, tokenizer)
CallPosReplacerApply ==
    /\ p_pc = "call"
    /\ p_out' = PosReplacerApply(p_replacer, p_text, p_tagger)
    /\ p_pc' = "done"
    /\ UNCHANGED <<p_replacer, p_text, p_tagger>>
    /\ UNCHANGED <<correctVars, disVars, engVars, ruleVars, rulesVars, disRuleVars, synthVars>>

NextPos == CallPosReplacerApply

SpecPos == InitPos /\ [][NextPos]_vars

\* ------------------------------------------ claim C6: antipattern gating

\* C6: get_match(tokens, i) returns Some(G) iff composition.apply(tokens, i)
\* yields G and no antipattern matches at any anchor j in [0, |tokens|) with
\* an overall span [anti_start, anti_end] such that anti_start <= rule_end
\* and rule_start <= anti_end; in every other case it returns None.
C6_GetMatchIffNotBlocked ==
    e_pc = "done" =>
        LET G == e_engine.composition.matches[e_anchor + 1]
            antis == e_engine.antipatterns
            Blocks(A) ==
                /\ A.groups[1].char_span[1] <= G.val.groups[Len(G.val.groups)].char_span[2]
                /\ G.val.groups[1].char_span[1] <= A.groups[Len(A.groups)].char_span[2]
            blocked ==
                \E j \in 0..(Len(EngTokens) - 1) : \E k \in 1..Len(antis) :
                    antis[k].matches[j + 1].some /\ Blocks(antis[k].matches[j + 1].val)
        IN /\ IsOk(e_match)
           /\ (G.some /\ ~blocked) => e_match.val = G
           /\ ~(G.some /\ ~blocked) => e_match.val = None

\* The composition matched "äb" at its anchor and the match was blocked by
\* the antipattern that matches "," at a later anchor: the spans only touch.
C6_Witness ==
    /\ e_pc = "done"
    /\ e_anchor = 1
    /\ e_engine.composition.matches[2].some
    /\ OverallSpan(e_engine.composition.matches[2].val) = <<0, 2>>
    /\ e_engine.antipatterns = <<AntipatternOver(EngTokens, 2, 3)>>
    /\ e_match = Ok(None)

\* -------------------------------------- claim C7: matches of a token engine

\* start_char and end_char of a graph for the rule's start and end.
C7_StartChar(g) == g.groups[g.id_to_idx[e_start] + 1].char_span[1]
C7_EndChar(g) == g.groups[g.id_to_idx[e_end - 1] + 1].char_span[2]
C7_Range(g) == {c \in 0..Len(EngText) : C7_StartChar(g) <= c /\ c < C7_EndChar(g)}

\* The candidates: the matches at the anchors the skip mask leaves.
C7_Candidates ==
    {GetMatch(e_engine, Len(EngTokens), i).val :
        i \in {a \in 0..(Len(EngTokens) - 1) :
                  /\ ~(e_skip.some /\ e_skip.val[a + 1])
                  /\ GetMatch(e_engine, Len(EngTokens), a).some}}

\* C7: the matches a token engine returns are in non-decreasing order of
\* start_char, their ranges [start_char, end_char) are pairwise disjoint,
\* each is a candidate, and a candidate is dropped only if its range
\* intersects the range of a returned match that is not behind it in the
\* order by start_char.
C7_TokenMatchesDisjoint ==
    (e_pc = "done" /\ e_engine.kind = "Token") =>
        /\ IsOk(e_graphs)
        /\ LET out == e_graphs.val
           IN /\ \A p, q \in 1..Len(out) :
                    p < q => /\ C7_StartChar(out[p]) <= C7_StartChar(out[q])
                             /\ C7_Range(out[p]) \cap C7_Range(out[q]) = {}
              /\ \A p \in 1..Len(out) : out[p] \in C7_Candidates
              /\ \A c \in C7_Candidates :
                    (\A p \in 1..Len(out) : out[p] # c) =>
                        \E p \in 1..Len(out) :
                            /\ C7_Range(out[p]) \cap C7_Range(c) # {}
                            /\ C7_StartChar(out[p]) <= C7_StartChar(c)

\* Two returned matches of which the first comes from the later anchor, and
\* a candidate that was dropped.
C7_Witness ==
    /\ e_pc = "done"
    /\ IsOk(e_graphs)
    /\ Len(e_graphs.val) = 2
    /\ e_skip = None
    /\ e_engine.composition.matches[1].some
    /\ e_engine.composition.matches[2].some
    /\ e_graphs.val[1] = e_engine.composition.matches[2].val
    /\ e_graphs.val[2] = e_engine.composition.matches[1].val
    /\ C7_StartChar(e_graphs.val[1]) < C7_StartChar(e_graphs.val[2])
    /\ \E c \in C7_Candidates : \A p \in 1..2 : e_graphs.val[p] # c

\* -------------------------------------- claim C3: no token is left tagless

\* The zipped pairs of the call: the groups the operator's loop visits.
DisVisited ==
    CASE d_op.kind \in {"Remove", "Filter", "Add", "Replace"} ->
            ZipLen(d_groups, d_op.params)
      [] d_op.kind = "Unify" ->
            ZipLen([i \in 1..ZipLen(d_groups, d_op.disambigs) |-> i], d_op.mask)
      [] OTHER -> Len(d_groups)

\* The operator added tags to the tokens of group g.
DisAddsTags(g) ==
    \/ d_op.kind \in {"Add", "Replace"}
    \/ d_op.kind = "Filter" /\ d_op.params[g].some /\ d_op.params[g].val.side = "Left"

\* C3 as stated: after Disambiguation.apply with any operator, no token it
\* was applied to has an empty tag set, unless the token's tag set was
\* already empty on input and the operator did not add tags.
C3_AsStated ==
    d_pc = "done" =>
        \A g \in 1..DisVisited : \A i \in 1..Len(d_tokens) :
            (InGroup(d_groups, g, i) /\ d_after[i].tags = <<>>)
                => (d_tokens[i].tags = <<>> /\ ~DisAddsTags(g))

\* The operators that have no fallback: Remove, Filter with a POSFilter, and
\* Add of a reading with an empty pos (which its own retain drops again).
DisNoFallback(g) ==
    \/ d_op.kind = "Remove"
    \/ d_op.kind = "Filter" /\ d_op.params[g].some /\ d_op.params[g].val.side = "Right"
    \/ d_op.kind = "Add" /\ d_op.params[g].pos = ""

\* C3 amended: after Replace, Filter with a WordData limit (or None), Unify,
\* Nop, or Add of a reading with a non-empty pos, no token the operator was
\* applied to has an empty tag set, unless the tag set was already empty on
\* input and the operator did not add tags.
C3_NoTaglessToken ==
    d_pc = "done" =>
        \A g \in 1..DisVisited : \A i \in 1..Len(d_tokens) :
            (InGroup(d_groups, g, i) /\ ~DisNoFallback(g) /\ d_after[i].tags = <<>>)
                => (d_tokens[i].tags = <<>> /\ ~DisAddsTags(g))

\* Unify was active (it changed another token) and restored the readings
\* of a token of a masked group that its disambig filter had emptied.
C3_Witness ==
    /\ d_pc = "done"
    /\ d_op.kind = "Unify"
    /\ d_after # d_tokens
    /\ \E g \in 1..DisVisited : \E i \in 1..Len(d_tokens) :
           /\ InGroup(d_groups, g, i)
           /\ d_op.mask[g]
           /\ d_op.disambigs[g].some
           /\ d_tokens[i].tags # <<>>
           /\ FilterKeep(d_op.disambigs[g].val, d_tokens[i].tags) = <<>>
           /\ d_after[i].tags = d_tokens[i].tags

\* ------------------------------------- claim C10: Filter with a WordData

\* C10: Filter with a WordData limit leaves a token of a group with
\* Some(limit) with a non-empty tag set whose tags all have pos = limit.pos;
\* if no input tag had that pos, the result is the one tag {limit.pos, L}
\* with L the lemma of the first input tag (the token text if there was
\* none) when retain_last, and the token text otherwise.  Tokens of groups
\* whose parameter is None are unchanged.
C10_FilterWordData ==
    (d_pc = "done" /\ d_op.kind = "Filter") =>
        \A g \in 1..DisVisited : \A i \in 1..Len(d_tokens) :
            InGroup(d_groups, g, i) =>
                LET param == d_op.params[g]
                    before == d_tokens[i]
                    after == d_after[i]
                IN /\ ~param.some => after = before
                   /\ (param.some /\ param.val.side = "Left") =>
                        LET pos == param.val.data.pos
                            L == IF d_retain /\ Len(before.tags) > 0
                                 THEN before.tags[1].lemma
                                 ELSE before.text
                        IN /\ Len(after.tags) > 0
                           /\ \A k \in 1..Len(after.tags) : after.tags[k].pos = pos
                           /\ (\A k \in 1..Len(before.tags) : before.tags[k].pos # pos)
                                => after.tags = <<[lemma |-> L, pos |-> pos]>>
                           /\ after.text = before.text

\* retain_last is set and Filter replaced the readings of a token, none of
\* which had the limit's pos, by the fallback with the first reading's lemma.
C10_Witness ==
    /\ d_pc = "done"
    /\ d_op.kind = "Filter"
    /\ d_retain
    /\ \E g \in 1..DisVisited : \E i \in 1..Len(d_tokens) :
           /\ InGroup(d_groups, g, i)
           /\ d_op.params[g].some
           /\ d_op.params[g].val.side = "Left"
           /\ Len(d_tokens[i].tags) = 2
           /\ d_tokens[i].tags[1].lemma # d_tokens[i].text
           /\ d_after[i].tags = <<WordData(d_tokens[i].tags[1].lemma, "VB.sg")>>

\* --------------------------------------------------- properties of ranges

\* The characters of the half-open range [start, end) of a suggestion.
CharRange(s) == s.start..(s.end - 1)

SortedByStart(suggs) ==
    \A i, j \in 1..Len(suggs) : i < j => suggs[i].start <= suggs[j].start

\* Pairwise non-overlapping as half-open character ranges: no character
\* belongs to two of the ranges.  An empty range overlaps nothing.
NonOverlapping(suggs) ==
    \A i, j \in 1..Len(suggs) :
        i < j => CharRange(suggs[i]) \cap CharRange(suggs[j]) = {}

\* Every range is well formed and lies within a text of `len` characters.
WithinText(len, suggs) ==
    \A i \in 1..Len(suggs) :
        0 <= suggs[i].start /\ suggs[i].start <= suggs[i].end /\ suggs[i].end <= len

\* Each suggestion ends at or before the start of the next one.
Chained(suggs) ==
    \A i \in 1..(Len(suggs) - 1) : suggs[i].end <= suggs[i + 1].start

\* ------------------------------------------------------ claim C5: correct

\* What the text is to become, position by position: at position p come
\* the replacements of the suggestions that start at p, in list order,
\* then character p itself unless a range covers it.
RECURSIVE ReplacementsAt(_, _)
ReplacementsAt(suggs, p) ==
    IF suggs = <<>>
    THEN <<>>
    ELSE (IF Head(suggs).start = p THEN Head(suggs).text[1] ELSE <<>>)
         \o ReplacementsAt(Tail(suggs), p)

Covered(suggs, p) == \E i \in 1..Len(suggs) : p \in CharRange(suggs[i])

RECURSIVE ExpectedFrom(_, _, _)
ExpectedFrom(text, suggs, p) ==
    IF p > Len(text)
    THEN <<>>
    ELSE ReplacementsAt(suggs, p)
         \o (IF p < Len(text) /\ ~Covered(suggs, p) THEN <<text[p + 1]>> ELSE <<>>)
         \o ExpectedFrom(text, suggs, p + 1)

ExpectedLength(text, suggs) ==
    Len(text)
    + SumSeq([i \in 1..Len(suggs) |->
                Len(suggs[i].text[1]) - (suggs[i].end - suggs[i].start)])

CorrectAsClaimed ==
    /\ IsOk(c_out)
    /\ c_out.val = ExpectedFrom(c_text, c_suggs, 0)
    /\ Len(c_out.val) = ExpectedLength(c_text, c_suggs)

\* C5 as stated: for suggestions sorted ascending by start, pairwise
\* non-overlapping and within the text, correct returns the text with each
\* range [start, end) replaced by text[0] and every other character kept in
\* place, of length |text| + sum of (|text[0]| - (end - start)).
C5_AsStated ==
    (c_pc = "done" /\ SortedByStart(c_suggs) /\ NonOverlapping(c_suggs)
        /\ WithinText(Len(c_text), c_suggs))
    => CorrectAsClaimed

\* C5 amended: the same result, for suggestions within the text of which
\* each ends at or before the start of the next (which excludes an empty
\* range placed inside, or at the start of, an earlier non-empty range).
C5_CorrectReplacesRanges ==
    (c_pc = "done" /\ Chained(c_suggs) /\ WithinText(Len(c_text), c_suggs))
    => CorrectAsClaimed

\* Two chained suggestions, the first over a non-empty range and changing
\* the length, have been spliced in.
C5_Witness ==
    /\ c_pc = "done"
    /\ Len(c_suggs) = 2
    /\ Chained(c_suggs) /\ WithinText(Len(c_text), c_suggs)
    /\ c_suggs[1].end - c_suggs[1].start = 2
    /\ c_suggs[1].text[1] = <<"x">>
    /\ c_suggs[2].start < c_suggs[2].end
    /\ IsOk(c_out)

\* --------------------------------------- claim C2: start <= end of Rule::apply

\* C2, as stated: Rule.apply never returns a suggestion whose start > end,
\* for token and text engines, for graphs whose group end - 1 is an absent
\* capture, and when the no-space absorption moves start to the left.
C2_AsStated ==
    (r_pc = "done" /\ IsOk(r_out)) =>
        \A n \in 1..Len(r_out.val) : r_out.val[n].start <= r_out.val[n].end

\* ------------------------------ claims C1, C4, C8: the list of Rules::apply

\* The call of Rules::apply has returned a list.
RulesReturned == a_pc = "done" /\ IsOk(a_out)

\* The suggestions the closures produced, each named by <<place of its rule
\* in the rule vector, place in the list of its rule>>.
Produced ==
    UNION {{<<i, q>> : q \in 1..Len(a_slots[i].val)} :
              i \in {j \in 1..Len(a_slots) : IsOk(a_slots[j])}}

SuggestionAt(c) == a_slots[c[1]].val[c[2]]

IsReturned(c) == \E n \in 1..Len(a_out.val) : a_out.val[n] = SuggestionAt(c)

NonEmptyRange(c) == SuggestionAt(c).start < SuggestionAt(c).end

RangesOverlap(c, d) == CharRange(SuggestionAt(c)) \cap CharRange(SuggestionAt(d)) # {}

\* c comes before d in the stable sort by start of the joined results.
SortsBefore(c, d) ==
    \/ SuggestionAt(c).start < SuggestionAt(d).start
    \/ /\ SuggestionAt(c).start = SuggestionAt(d).start
       /\ (c[1] < d[1] \/ (c[1] = d[1] /\ c[2] < d[2]))

\* C1: the list returned by Rules.apply is sorted ascending by start, and
\* its suggestions are pairwise non-overlapping as half-open character
\* ranges [start, end): no two of them share a character.
C1_SortedNonOverlapping ==
    RulesReturned => SortedByStart(a_out.val) /\ NonOverlapping(a_out.val)

\* Rules.apply has returned two suggestions or more after discarding one,
\* from results that were not in order of start when joined.
C1_Witness ==
    /\ RulesReturned
    /\ Len(a_out.val) >= 2
    /\ Len(FlattenInRuleOrder(a_slots, a_order)) > Len(a_out.val)
    /\ ~SortedByStart(FlattenInRuleOrder(a_slots, a_order))

C8_AsStated ==
    RulesReturned =>
        \A c, d \in Produced :
            (/\ c[1] < d[1]
             /\ SuggestionAt(c).start = SuggestionAt(d).start
             /\ \/ SuggestionAt(c).end = SuggestionAt(d).end
                \/ RangesOverlap(c, d))
            => IsReturned(c) /\ ~IsReturned(d)

\* C8, amended: of two suggestions of different enabled rules over the same
\* non-empty range, or over overlapping ranges with the same start,
\* Rules.apply never returns that of the later rule, and it returns that of
\* the earlier rule when no suggestion sorted before it overlaps it; two
\* suggestions over the same empty range are both returned.
C8_FirstRuleWins ==
    RulesReturned =>
        \A c, d \in Produced :
            (c[1] < d[1] /\ SuggestionAt(c).start = SuggestionAt(d).start)
            => /\ (NonEmptyRange(c) /\ NonEmptyRange(d))
                  => /\ ~IsReturned(d)
                     /\ (\A z \in Produced : SortsBefore(z, c) => ~RangesOverlap(z, c))
                           => IsReturned(c)
               /\ (~NonEmptyRange(c) /\ ~NonEmptyRange(d))
                  => IsReturned(c) /\ IsReturned(d)

\* Two enabled rules have produced suggestions over the same non-empty
\* range, and Rules.apply has returned that of the earlier rule.
C8_Witness ==
    /\ RulesReturned
    /\ \E c, d \in Produced :
           /\ c[1] < d[1]
           /\ SuggestionAt(c).start = SuggestionAt(d).start
           /\ SuggestionAt(c).end = SuggestionAt(d).end
           /\ NonEmptyRange(c)
           /\ SuggestionAt(c).text # SuggestionAt(d).text
           /\ IsReturned(c)
           /\ ~IsReturned(d)

\* ------------------------------- claim C9: the complete tokens handed back

\* DisambiguationRule::apply has returned.
DisRuleReturned == x_pc = "done" /\ IsOk(x_out)

\* The operator was applied to at least one match: the engine ran and a
\* graph survived the filter.
DisRuleApplied ==
    /\ x_rule.disambiguations.kind # "Nop"
    /\ \E i \in 1..Len(x_skip) : ~RefineSkipMask(x_rule, x_tokens, x_skip).val[i]
    /\ AllByteSpans(x_rule,
                    GetMatches(x_rule.engine, Len(x_tokens) + 1, EngText,
                               Some(<<FALSE>> \o RefineSkipMask(x_rule, x_tokens, x_skip).val),
                               x_rule.start, x_rule.end),
                    Finalize(x_tokens)).val # <<>>

UnifyCombinations == CartesianProduct(d_op.filters)

\* The tag matches all filters of the combination.
MatchesCombination(combination, tag) ==
    \A k \in 1..Len(combination) : IsWordDataMatch(combination[k], tag)

\* Token i is a token of a masked group.
InMaskedGroup(i) ==
    \E g \in 1..Len(d_groups) : d_op.mask[g] /\ InGroup(d_groups, g, i)

\* Every token of every masked group has a tag matching the combination.
IsActive(combination) ==
    \A i \in 1..Len(d_tokens) :
        InMaskedGroup(i) =>
            \E t \in 1..Len(d_tokens[i].tags) :
                MatchesCombination(combination, d_tokens[i].tags[t])

SomeActive == \E n \in 1..Len(UnifyCombinations) : IsActive(UnifyCombinations[n])

\* The tags of token i of a masked group that match an active combination
\* and the disambig filter of its group, or its tags if there is none.
UnifiedTags(i) ==
    LET g == CHOOSE h \in 1..Len(d_groups) : InGroup(d_groups, h, i)
        Keep(tag) ==
            /\ \E n \in 1..Len(UnifyCombinations) :
                   /\ IsActive(UnifyCombinations[n])
                   /\ MatchesCombination(UnifyCombinations[n], tag)
            /\ d_op.disambigs[g].some => IsWordDataMatch(d_op.disambigs[g].val, tag)
        kept == SelectSeq(d_tokens[i].tags, Keep)
    IN IF kept = <<>> THEN d_tokens[i].tags ELSE kept

\* C11: Unify.  A combination of the Cartesian product of the filter lists
\* is active iff every token of every masked group has a tag matching all
\* its filters.  With no active combination no token is changed; otherwise
\* a token of a masked group keeps exactly its tags that match all filters
\* of some active combination and the disambig filter of its group, or all
\* its tags if none would be left, and every other token is unchanged.
C11_Unify ==
    (d_pc = "done" /\ d_op.kind = "Unify") =>
        \A i \in 1..Len(d_tokens) :
            d_after[i] = IF SomeActive /\ InMaskedGroup(i)
                         THEN [d_tokens[i] EXCEPT !.tags = UnifiedTags(i)]
                         ELSE d_tokens[i]

\* Two masked groups of one token with two readings each; one combination
\* is active, another is not, and both tokens have lost a reading.
C11_Witness ==
    /\ d_pc = "done"
    /\ d_op.kind = "Unify"
    /\ d_op.mask = <<TRUE, TRUE>>
    /\ d_groups = <<<<1>>, <<2>>>>
    /\ SomeActive
    /\ \E n \in 1..Len(UnifyCombinations) : ~IsActive(UnifyCombinations[n])
    /\ \A i \in 1..2 : Len(d_tokens[i].tags) = 2 /\ Len(d_after[i].tags) = 1

\* ------------------------- claim C12: start and end of a suggestion

\* Rule::apply has returned a list.
RuleReturned == r_pc = "done" /\ IsOk(r_out)

\* The graphs of the call, in the order Rule::apply visits them.
RuleGraphs == GetMatches(r_rule.engine, Len(EngTokens), EngText, r_skip,
                         r_rule.start, r_rule.end).val

\* Some suggester produces a text for the graph.
HasTexts(graph) ==
    SuggesterTexts(r_rule, 1, graph, EngTokens, EngText, RuleTagger).val # <<>>

\* The graphs a suggestion was pushed for; suggestion n belongs to graph n.
SuggestedGraphs == SelectSeq(RuleGraphs, HasTexts)

\* The 0-based indices of the tokens of group n (1-based) of the graph.
TokensOfGroup(tokens, graph, n) ==
    {i \in 0..(Len(tokens) - 1) :
        /\ tokens[i + 1].char_span[1] < tokens[i + 1].char_span[2]
        /\ graph.groups[n].char_span[1] <= tokens[i + 1].char_span[1]
        /\ tokens[i + 1].char_span[2] <= graph.groups[n].char_span[2]}

\* Some group of the graph, from group `start` on, has tokens.
RegionHasTokens(tokens, graph, start) ==
    \E n \in (GetIndex(graph, start).val + 1)..Len(graph.groups) :
        TokensOfGroup(tokens, graph, n) # {}

\* The index k of the first token of the matched region: the first token
\* of the first group, from group `start` on, that has tokens.
FirstTokenOfRegion(tokens, graph, start) ==
    LET from == GetIndex(graph, start).val + 1
        n == CHOOSE n \in from..Len(graph.groups) :
                 /\ TokensOfGroup(tokens, graph, n) # {}
                 /\ \A m \in from..(n - 1) : TokensOfGroup(tokens, graph, m) = {}
    IN CHOOSE k \in TokensOfGroup(tokens, graph, n) :
           \A j \in TokensOfGroup(tokens, graph, n) : k <= j

\* Every replacement text of the suggestion begins with a no-space character.
AllTextsNoSpace(suggestion) ==
    \A t \in 1..Len(suggestion.text) : StartsWithNoSpaceChar(suggestion.text[t])

\* C12: a suggestion of Rule.apply ends at group(end - 1).char_span.1 and
\* starts at group(start).char_span.0, except that it starts at
\* tokens[k - 1].char_span.1 when every replacement text begins with a
\* no-space character and the first token of the matched region has index
\* k > 0 in tokens.
C12_StartAndEnd ==
    RuleReturned =>
        /\ Len(r_out.val) = Len(SuggestedGraphs)
        /\ \A n \in 1..Len(r_out.val) :
               /\ r_out.val[n].end =
                      ById(SuggestedGraphs[n], r_rule.end - 1).val.char_span[2]
               /\ r_out.val[n].start =
                      IF AllTextsNoSpace(r_out.val[n])
                            /\ FirstTokenOfRegion(EngTokens, SuggestedGraphs[n], r_rule.start) > 0
                      THEN EngTokens[FirstTokenOfRegion(EngTokens, SuggestedGraphs[n], r_rule.start)].char_span[2]
                      ELSE ById(SuggestedGraphs[n], r_rule.start).val.char_span[1]

\* A suggestion whose texts all begin with a no-space character starts at
\* the end of the token before the matched region, to the left of the
\* start of group `start`: the whitespace between them is absorbed.
C12_Witness ==
    /\ RuleReturned
    /\ \E n \in 1..Len(r_out.val) :
           /\ AllTextsNoSpace(r_out.val[n])
           /\ FirstTokenOfRegion(EngTokens, SuggestedGraphs[n], r_rule.start) > 0
           /\ r_out.val[n].start < ById(SuggestedGraphs[n], r_rule.start).val.char_span[1]
           /\ r_out.val[n].start < r_out.val[n].end

\* ------------------------------ claim C13: the case of a synthesized text

\* Synthesizer::apply has returned a text.
SynthReturned == s_pc = "done" /\ IsOk(s_out) /\ s_out.val.some

\* The whitespace-normalized output of the parts.
SynthNormalized ==
    NormalizeWhitespace(
        SynthesizerOutput(s_synth.parts, 1, s_graph, SynthText, SynthTagger).val.val)

\* The first part is a Match with a conversion other than Nop.
StartsWithConversion ==
    /\ s_synth.parts # <<>>
    /\ s_synth.parts[1].part = "Match"
    /\ s_synth.parts[1].conversion # "Nop"

\* The first token of the first group with tokens, from group `start` on.
SynthFirstToken == SynthTokens[FirstTokenOfRegion(SynthTokens, s_graph, s_start) + 1]

\* The condition under which the first character is uppercased.
SynthUppercases ==
    /\ ~StartsWithConversion
    /\ RegionHasTokens(SynthTokens, s_graph, s_start)
    /\ \/ SynthFirstToken.byte_span[1] = 0
       \/ s_synth.use_titlecase_adjust /\ IsUppercase(SynthFirstToken.text[1])

\* C13: Synthesizer.apply returns its whitespace-normalized output with the
\* first character uppercased if the first part is not a Match with a
\* non-Nop conversion and the first token of the first non-empty group at
\* or after group `start` starts at byte offset 0 or, with
\* use_titlecase_adjust set, begins with an uppercase letter; in every
\* other case it returns the normalized output as it is.
C13_Uppercase ==
    SynthReturned =>
        s_out.val.val = IF SynthUppercases
                        THEN FirstUpper(SynthNormalized)
                        ELSE SynthNormalized

\* Both ways happen with an output that begins with a lowercase letter: it
\* is uppercased for a capitalised first token that is not at byte offset
\* 0, under use_titlecase_adjust.
C13_Witness ==
    /\ SynthReturned
    /\ SynthUppercases
    /\ SynthFirstToken.byte_span[1] # 0
    /\ s_out.val.val # SynthNormalized
    /\ s_out.val.val = FirstUpper(SynthNormalized)

\* ------------------------------- claim C14: the word of PosReplacer::apply

\* The member words with a matching tag: <<c, word, i>> for the word of
\* the family of tagger candidate c (in get_tags order) whose first
\* matching tag has index i.
PosCandidates ==
    LET readings == TaggerGetTags(p_tagger, p_text)
    IN UNION {{<<c, w, FirstMatchingTag(p_replacer, TaggerGetTags(p_tagger, w)).val>> :
                  w \in {v \in {"saw", "see", "sees", "saws"} :
                            /\ \E k \in 1..Len(TaggerGetGroupMembers(p_tagger, readings[c].lemma)) :
                                   TaggerGetGroupMembers(p_tagger, readings[c].lemma)[k] = v
                            /\ FirstMatchingTag(p_replacer, TaggerGetTags(p_tagger, v)).some}} :
                 c \in 1..Len(readings)}

\* The candidates whose index i is smallest.
PosSmallest == {x \in PosCandidates : \A y \in PosCandidates : x[3] <= y[3]}

\* Among those, the ones of the earliest, or of the latest, tagger candidate.
PosEarliest == {x \in PosSmallest : \A y \in PosSmallest : x[1] <= y[1]}
PosLatest == {x \in PosSmallest : \A y \in PosSmallest : x[1] >= y[1]}

\* C14, as stated: PosReplacer.apply returns a member word whose first
\* matching tag index is smallest, among several such the one of the
\* earlier tagger candidate, and none iff no member word has a matching tag.
C14_AsStated ==
    p_pc = "done" =>
        /\ p_out.some <=> PosCandidates # {}
        /\ p_out.some => \E x \in PosEarliest : x[2] = p_out.val

\* ----------------------------- claim C15: the mask handed to the engine

\* The complete tokens the engine is called with.
DisRuleCompleteTokens ==
    IF x_complete.some THEN x_complete.val ELSE Finalize(x_tokens)

\* C15: the mask DisambiguationRule.apply hands to the engine has one entry
\* per complete token, |tokens| + 1; entry 0, that of the sentence-start
\* token, is false, and entry i + 1 is true iff the caller's mask[i] was
\* true or, for a token engine, composition.can_not_match(tokens[i]) holds,
\* whether the complete tokens are computed by the call or supplied.
C15_MaskAligned ==
    (x_pc = "done" /\ x_mask.some) =>
        /\ Len(x_mask.val) = Len(x_tokens) + 1
        /\ Len(x_mask.val) = Len(DisRuleCompleteTokens)
        /\ ~x_mask.val[1]
        /\ \A i \in 1..Len(x_tokens) :
               /\ DisRuleCompleteTokens[i + 1].byte_span = x_tokens[i].byte_span
               /\ x_mask.val[i + 1] <=>
                      \/ x_skip[i]
                      \/ /\ x_rule.engine.kind = "Token"
                         /\ x_tokens[i].text \in x_rule.engine.composition.can_not

\* A token engine was called with complete tokens supplied by the caller
\* and a mask in which one token is skipped for the caller's mask, another
\* because the composition can not match it, and a third is not skipped.
C15_Witness ==
    /\ x_pc = "done"
    /\ x_mask.some
    /\ x_complete.some
    /\ x_rule.engine.kind = "Token"
    /\ \E i, j, k \in 1..Len(x_tokens) :
           /\ x_skip[i] /\ x_mask.val[i + 1]
           /\ ~x_skip[j] /\ x_mask.val[j + 1]
           /\ ~x_mask.val[k + 1]

\* ------------------------- claim C16: a suggestion iff a suggester has a text

\* The call gets as far as the suggesters for every match and none of them
\* panics: get_matches returns, every graph has the groups `start` and
\* `end - 1`, and every suggester returns.
SuggestersReturn ==
    /\ IsOk(GetMatches(r_rule.engine, Len(EngTokens), EngText, r_skip,
                       r_rule.start, r_rule.end))
    /\ \A n \in 1..Len(RuleGraphs) :
           /\ ById(RuleGraphs[n], r_rule.start).some
           /\ ById(RuleGraphs[n], r_rule.end - 1).some
           /\ IsOk(SuggesterTexts(r_rule, 1, RuleGraphs[n], EngTokens, EngText, RuleTagger))

\* The texts the suggesters produce for the graph, as Rule::apply returns them.
TextsOf(graph) ==
    LET texts == SuggesterTexts(r_rule, 1, graph, EngTokens, EngText, RuleTagger).val
    IN [t \in 1..Len(texts) |-> FixNospaceChars(texts[t])]

\* C16, as stated: Rule.apply emits a suggestion for a match iff at least
\* one suggester produces a text for it.  A match for which every suggester
\* returns none yields no suggestion, the suggestions for the other matches
\* are unaffected, and every suggestion returned has a non-empty text list.
C16_AsStated ==
    (r_pc = "done" /\ SuggestersReturn) =>
        /\ IsOk(r_out)
        /\ Len(r_out.val) = Len(SuggestedGraphs)
        /\ \A n \in 1..Len(r_out.val) :
               /\ r_out.val[n].text # <<>>
               /\ r_out.val[n].text = TextsOf(SuggestedGraphs[n])

\* ------------------------------- claim C17: the cache changes no result

\* Every enabled rule applied with no skip mask, then sorted and
\* de-overlapped.
AppliedUnskipped ==
    RulesCollect([i \in 1..Len(a_rules) |->
                     IF a_rules[i].on
                     THEN RuleApply(a_rules[i], EngTokens, EngText, None, RuleTagger)
                     ELSE NoResult],
                 <<>>, EngText)

\* C17: with a cache filled by any calls of populate_cache, or left empty,
\* and rules on or off, Rules.apply returns what applying every enabled
\* rule with no skip mask, sorting and de-overlapping returns; the flag of
\* a word at the place i of a rule is can_not_match of that rule's engine,
\* and get_skip_mask finds a flag at the place of every rule.
C17_CacheTransparent ==
    a_pc = "done" =>
        /\ a_out = AppliedUnskipped
        /\ \A i \in 1..Len(a_rules) :
               /\ IsOk(CacheGetSkipMask(a_cache, EngTokens, i - 1))
               /\ \A w \in DOMAIN a_cache :
                      /\ i <= Len(a_cache[w])
                      /\ a_cache[w][i] <=>
                             /\ a_rules[i].engine.kind = "Token"
                             /\ w \in a_rules[i].engine.composition.can_not

\* The first rule is off, a word of the sentence was populated twice and
\* another once, a token rule after the first is skipped at a token by the
\* cache, and its suggestion is returned.
C17_Witness ==
    /\ a_pc = "done"
    /\ IsOk(a_out)
    /\ ~a_rules[1].on
    /\ \E w, v \in DOMAIN a_cache :
           /\ Len(a_cache[w]) = 2 * Len(a_rules)
           /\ Len(a_cache[v]) = Len(a_rules)
    /\ \E i \in 2..Len(a_rules) :
           /\ a_rules[i].on
           /\ a_rules[i].engine.kind = "Token"
           /\ \E n \in 1..Len(EngTokens) :
                  CacheGetSkipMask(a_cache, EngTokens, i - 1).val[n]
           /\ \E k \in 1..Len(a_out.val) : a_out.val[k].source = i

\* ------------------------- claim C18: only the tags of matched tokens change

\* The graphs of the call that the filter of the rule accepts.
SurvivingGraphs ==
    LET graphs == GetMatches(x_rule.engine, Len(DisRuleCompleteTokens), EngText, x_mask,
                             x_rule.start, x_rule.end).val
        Accepted(graph) == x_rule.filter.some => graph \in x_rule.filter.val.keeps
    IN SelectSeq(graphs, Accepted)

\* The byte spans of the tokens of the groups start..end - 1 of the
\* surviving graphs.
MatchedByteSpans ==
    IF ~x_mask.some
    THEN {}
    ELSE {DisRuleCompleteTokens[k + 1].byte_span :
             k \in UNION {TokensOfGroup(DisRuleCompleteTokens, SurvivingGraphs[n],
                                        GetIndex(SurvivingGraphs[n], id).val + 1) :
                             n \in 1..Len(SurvivingGraphs),
                             id \in x_rule.start..(x_rule.end - 1)}}

\* C18: DisambiguationRule.apply returns the tokens in the same number and
\* order, each with its text, char_span and byte_span, and a token whose
\* byte_span is in no group start..end - 1 of a match the filter accepts
\* keeps its tags.
C18_OnlyMatchedTags ==
    DisRuleReturned =>
        /\ Len(x_out.val.tokens) = Len(x_tokens)
        /\ \A i \in 1..Len(x_tokens) :
               /\ x_out.val.tokens[i].text = x_tokens[i].text
               /\ x_out.val.tokens[i].char_span = x_tokens[i].char_span
               /\ x_out.val.tokens[i].byte_span = x_tokens[i].byte_span
               /\ x_tokens[i].byte_span \notin MatchedByteSpans
                      => x_out.val.tokens[i].tags = x_tokens[i].tags

\* Replace has changed the tags of a matched token and left alone a token
\* outside the match that it would have changed as well.
C18_Witness ==
    /\ DisRuleReturned
    /\ x_rule.disambiguations.kind = "Replace"
    /\ \E i, j \in 1..Len(x_tokens) :
           /\ x_tokens[i].byte_span \in MatchedByteSpans
           /\ x_out.val.tokens[i].tags # x_tokens[i].tags
           /\ x_tokens[j].byte_span \notin MatchedByteSpans
           /\ x_out.val.tokens[j].tags = x_tokens[j].tags
           /\ ReplaceTags(x_rule.disambiguations.params[1], x_tokens[j]) # x_tokens[j].tags

\* ------------------------- claim C19: no stale finalization along a chain

\* The complete tokens are those of the tokens.
FreshFor(complete_tokens, tokens) == complete_tokens = Finalize(tokens)

\* C19: whenever a call along a chain of rules returns Some(complete_tokens),
\* the tokens it returns are the tokens it was given and the complete
\* tokens are the finalization of the returned tokens; and the complete
\* tokens a rule of the chain is called with, and so the tokens its engine
\* matches against, are never stale: they are absent or the finalization
\* of the tokens the rule is called with.
C19_NeverStale ==
    /\ (DisRuleReturned /\ x_out.val.complete.some) =>
           /\ x_out.val.tokens = x_tokens
           /\ FreshFor(x_out.val.complete.val, x_out.val.tokens)
    /\ x_complete.some => FreshFor(x_complete.val, x_tokens)
    /\ (x_pc = "done" /\ x_mask.some) =>
           FreshFor(IF x_complete.some THEN x_complete.val ELSE Finalize(x_tokens),
                    x_tokens)

\* A later rule of a chain is called with tokens an earlier rule has changed
\* and with the complete tokens the rule before it has handed back, and its
\* engine has run.
C19_Witness ==
    /\ x_steps >= 2
    /\ x_pc = "done"
    /\ x_tokens # DisRuleTokens
    /\ x_complete.some
    /\ x_mask.some
    /\ DisRuleReturned

====
